---- MODULE Spec2Model ----
(***************************************************************************)
(* Task-tracking REST API: token authentication (middleware/auth.js,       *)
(* utils/jwt.js, controllers/authController.js) and the task controller    *)
(* (controllers/taskController.js, models/Task.js).                        *)
(*                                                                         *)
(* Optional values (null / undefined dates, a document that findById does  *)
(* not find) are sequences of length at most one: <<>> is null, <<v>> is   *)
(* the value v.  A request body is a function whose domain is the set of   *)
(* keys the client submitted.                                              *)
(***************************************************************************)
EXTENDS Integers, Sequences, FiniteSets, TLC

VARIABLES
    clock,      \* the server clock (new Date()), in ticks
    tasks,      \* the tasks collection: task id -> task document
    usedIds,    \* task ids ever allocated (ObjectIds are never reused)
    resp,       \* the last response of a single-task handler or of createTask
    listing,    \* the last response of getTasks
    users,      \* the users collection: user id -> user document
    tokens,     \* the bearer tokens issued so far (held by clients)
    auth,       \* the outcome of the last run of the authenticate middleware
    pending     \* requests between two awaits: request slot -> request

vars == <<clock, tasks, usedIds, resp, listing, users, tokens, auth, pending>>

authVars == <<users, tokens, auth, pending>>

-----------------------------------------------------------------------------
(* Bounds of the model *)

\* Comments a task can hold.
MaxComments == 1
\* Last tick of the clock.
MaxClock == 2

-----------------------------------------------------------------------------
(* Values *)

Null == <<>>
Some(v) == <<v>>
IsNull(m) == m = <<>>
The(m) == m[1]

\* The ObjectIds Task.create can allocate.
TaskIds == {"t1"}

\* The identities of the deployment: mongo-init.js seeds "admin" and "user";
\* "bob" is an account registered through POST /auth/register.
UserIds == {"admin", "user", "bob"}
Roles == {"user", "admin"}

\* req.user as the task controller reads it: _id and role.
Callers == {[id |-> "admin", role |-> "admin"],
            [id |-> "user", role |-> "user"],
            [id |-> "bob", role |-> "user"]}

Statuses == {"pending", "in-progress", "completed", "cancelled"}
Priorities == {"low", "medium", "high", "urgent"}

\* Text is a sequence of characters.  A request body or query is a function
\* on the keys it carries.
Has(body, k) == k \in DOMAIN body

\* The empty object {} and the object {k: v}.
Empty == <<>>
Obj(k, v) == k :> v

-----------------------------------------------------------------------------
(* models/Task.js *)

\* taskSchema defaults applied to the fields createTask passes to Task.create.
NewTaskDoc(data, now) ==
    [title       |-> data.title,
     description |-> IF Has(data, "description") THEN data.description ELSE <<>>,
     status      |-> IF Has(data, "status") THEN data.status ELSE "pending",
     priority    |-> IF Has(data, "priority") THEN data.priority ELSE "medium",
     category    |-> IF Has(data, "category") THEN data.category ELSE <<"g", "e", "n", "e", "r", "a", "l">>,
     dueDate     |-> IF Has(data, "dueDate") THEN data.dueDate ELSE Null,
     completedAt |-> Null,
     assignedTo  |-> data.assignedTo,
     createdBy   |-> data.createdBy,
     tags        |-> IF Has(data, "tags") THEN data.tags ELSE {},
     comments    |-> <<>>,
     isArchived  |-> FALSE,
     createdAt   |-> now,
     updatedAt   |-> now]

\* Schema validators (required title, status and priority enums, dueDate
\* validator "!value || value > new Date()"), on the paths present in data.
SchemaValid(data, now) ==
    /\ Has(data, "title") => data.title # <<>>
    /\ Has(data, "status") => data.status \in Statuses
    /\ Has(data, "priority") => data.priority \in Priorities
    /\ Has(data, "dueDate") => (IsNull(data.dueDate) \/ The(data.dueDate) > now)

\* pre('save') hook 1: derive completedAt from status when status is modified.
PreSaveCompletedAt(doc, statusModified, now) ==
    IF statusModified
    THEN IF doc.status = "completed" /\ IsNull(doc.completedAt)
         THEN [doc EXCEPT !.completedAt = Some(now)]
         ELSE IF doc.status # "completed"
              THEN [doc EXCEPT !.completedAt = Null]
              ELSE doc
    ELSE doc

\* pre('save') hook 2: the save is aborted when dueDate is set and not in the
\* future.
PreSaveDueDateOk(doc, now) ==
    IsNull(doc.dueDate) \/ The(doc.dueDate) > now

\* canModify without the ownership test.
canModifyAnyone(task, userId, userRole) == TRUE

\* canModify without the admin shortcut.
canModifyOwnerOnly(task, userId, userRole) ==
    task.createdBy = userId \/ task.assignedTo = userId

canModify(task, userId, userRole) ==
    IF userRole = "admin" THEN TRUE
    ELSE task.createdBy = userId \/ task.assignedTo = userId

\* taskSchema.methods.addComment: push {content, author}; createdAt defaults
\* to Date.now.
PushComment(task, content, authorId, now) ==
    [task EXCEPT !.comments =
        Append(@, [content |-> content, author |-> authorId, createdAt |-> now])]

\* timestamps: true on a save of a modified document: updatedAt is the time
\* of the save.
SaveStamp(task, now) == [task EXCEPT !.updatedAt = now]

-----------------------------------------------------------------------------
(* controllers/taskController.js: the store *)

findById(id) == IF id \in DOMAIN tasks THEN Some(tasks[id]) ELSE Null

FreshId == CHOOSE i \in TaskIds \ usedIds : TRUE

\* The response sent, with the request it answers and the collection as the
\* request found it.
Respond(op, c, tid, body, result) ==
    resp' = [op |-> op, caller |-> c, tid |-> tid, body |-> body,
             result |-> result, before |-> tasks]

\* The body fields createTask destructures.
CreateFields ==
    {"title", "description", "status", "priority", "category", "dueDate",
     "assignedTo", "tags"}

\* "assignedTo" as createTask tests it: a missing field and the empty string
\* are both falsy.
Assigns(body) == Has(body, "assignedTo") /\ body.assignedTo # ""

\* taskData with createdBy read from the body when the body carries one.
taskDataTrustsBody(c, body) ==
    Obj("assignedTo", IF Assigns(body) THEN body.assignedTo ELSE c.id)
    @@ Obj("createdBy", IF Has(body, "createdBy") THEN body.createdBy ELSE c.id)
    @@ [k \in DOMAIN body \cap CreateFields |-> body[k]]

\* const taskData = {...}: the destructured fields, assignedTo defaulting to
\* the caller, createdBy the caller.
taskData(c, body) ==
    Obj("assignedTo", IF Assigns(body) THEN body.assignedTo ELSE c.id)
    @@ Obj("createdBy", c.id)
    @@ [k \in DOMAIN body \cap CreateFields |-> body[k]]

\* createTask without the test that only an admin assigns to somebody else.
createTaskAnyoneAssigns(c, body) ==
    LET data == taskData(c, body)
    IN
    /\ usedIds # TaskIds
    /\ IF ~Has(data, "title") \/ ~SchemaValid(data, clock)
       THEN /\ Respond("create", c, "none", body, "ValidationFailed")
            /\ UNCHANGED <<tasks, usedIds>>
       ELSE LET id == FreshId
                doc == PreSaveCompletedAt(NewTaskDoc(data, clock),
                                          Has(data, "status"), clock)
            IN /\ tasks' = [i \in DOMAIN tasks \cup {id} |->
                               IF i = id THEN doc ELSE tasks[i]]
               /\ usedIds' = usedIds \cup {id}
               /\ Respond("create", c, id, body, "Created")
    /\ UNCHANGED <<clock, listing, authVars>>

\* createTask
createTask(c, body) ==
    LET data == taskData(c, body)
    IN
    /\ usedIds # TaskIds
    /\ IF Assigns(body) /\ body.assignedTo # c.id /\ c.role # "admin"
       THEN /\ Respond("create", c, "none", body, "Forbidden")
            /\ UNCHANGED <<tasks, usedIds>>
       ELSE IF ~Has(data, "title") \/ ~SchemaValid(data, clock)
       THEN /\ Respond("create", c, "none", body, "ValidationFailed")
            /\ UNCHANGED <<tasks, usedIds>>
       ELSE LET id == FreshId
                doc == PreSaveCompletedAt(NewTaskDoc(data, clock),
                                          Has(data, "status"), clock)
            IN /\ tasks' = [i \in DOMAIN tasks \cup {id} |->
                               IF i = id THEN doc ELSE tasks[i]]
               /\ usedIds' = usedIds \cup {id}
               /\ Respond("create", c, id, body, "Created")
    /\ UNCHANGED <<clock, listing, authVars>>

\* getTask with the access check on the assignee alone.
getTaskAssigneeOnly(c, tid) ==
    LET task == findById(tid) IN
    /\ IF IsNull(task)
       THEN Respond("get", c, tid, <<>>, "NotFound")
       ELSE IF c.role # "admin" /\ The(task).assignedTo # c.id
       THEN Respond("get", c, tid, <<>>, "Forbidden")
       ELSE Respond("get", c, tid, <<>>, "OK")
    /\ UNCHANGED <<clock, tasks, usedIds, listing, authVars>>

\* getTask
getTask(c, tid) ==
    LET task == findById(tid) IN
    /\ IF IsNull(task)
       THEN Respond("get", c, tid, <<>>, "NotFound")
       ELSE IF c.role # "admin" /\ The(task).assignedTo # c.id
                                /\ The(task).createdBy # c.id
       THEN Respond("get", c, tid, <<>>, "Forbidden")
       ELSE Respond("get", c, tid, <<>>, "OK")
    /\ UNCHANGED <<clock, tasks, usedIds, listing, authVars>>

\* The allow-list of updateTask and the updates object built from the body.
allowedUpdates(role) ==
    {"title", "description", "status", "priority", "category", "dueDate",
     "tags", "isArchived"} \cup (IF role = "admin" THEN {"assignedTo"} ELSE {})

\* Updates without the allow-list.
BuildUpdatesAllFields(body, role) == body

BuildUpdates(body, role) ==
    [k \in DOMAIN body \cap allowedUpdates(role) |-> body[k]]

\* Task.findByIdAndUpdate(id, updates, {new, runValidators}): $set of the
\* submitted paths and of updatedAt; no save middleware runs.
ApplyUpdates(task, updates, now) ==
    [k \in DOMAIN task |->
        IF k \in DOMAIN updates THEN updates[k]
        ELSE IF k = "updatedAt" THEN now
        ELSE task[k]]

\* updateTask without the reassignment check (the allow-list alone drops
\* assignedTo for a non-admin).
updateTaskNoReassignCheck(c, tid, body) ==
    LET task == findById(tid)
        updates == BuildUpdates(body, c.role)
    IN
    /\ IF IsNull(task)
       THEN /\ Respond("update", c, tid, body, "NotFound")
            /\ UNCHANGED tasks
       ELSE IF ~canModify(The(task), c.id, c.role)
       THEN /\ Respond("update", c, tid, body, "Forbidden")
            /\ UNCHANGED tasks
       ELSE IF ~SchemaValid(updates, clock)
       THEN /\ Respond("update", c, tid, body, "ValidationFailed")
            /\ UNCHANGED tasks
       ELSE /\ tasks' = [tasks EXCEPT ![tid] = ApplyUpdates(The(task), updates, clock)]
            /\ Respond("update", c, tid, body, "OK")
    /\ UNCHANGED <<clock, usedIds, listing, authVars>>

\* updateTask
updateTask(c, tid, body) ==
    LET task == findById(tid)
        updates == BuildUpdates(body, c.role)
    IN
    /\ IF IsNull(task)
       THEN /\ Respond("update", c, tid, body, "NotFound")
            /\ UNCHANGED tasks
       ELSE IF ~canModify(The(task), c.id, c.role)
       THEN /\ Respond("update", c, tid, body, "Forbidden")
            /\ UNCHANGED tasks
       ELSE IF Has(body, "assignedTo") /\ c.role # "admin"
               /\ The(task).assignedTo # body.assignedTo
       THEN /\ Respond("update", c, tid, body, "Forbidden")
            /\ UNCHANGED tasks
       ELSE IF ~SchemaValid(updates, clock)
       THEN /\ Respond("update", c, tid, body, "ValidationFailed")
            /\ UNCHANGED tasks
       ELSE /\ tasks' = [tasks EXCEPT ![tid] = ApplyUpdates(The(task), updates, clock)]
            /\ Respond("update", c, tid, body, "OK")
    /\ UNCHANGED <<clock, usedIds, listing, authVars>>

\* deleteTask
deleteTask(c, tid) ==
    LET task == findById(tid) IN
    /\ IF IsNull(task)
       THEN /\ Respond("delete", c, tid, <<>>, "NotFound")
            /\ UNCHANGED tasks
       ELSE IF ~canModify(The(task), c.id, c.role)
       THEN /\ Respond("delete", c, tid, <<>>, "Forbidden")
            /\ UNCHANGED tasks
       ELSE /\ tasks' = [i \in DOMAIN tasks \ {tid} |-> tasks[i]]
            /\ Respond("delete", c, tid, <<>>, "OK")
    /\ UNCHANGED <<clock, usedIds, listing, authVars>>

\* addComment
addComment(c, tid, content) ==
    LET task == findById(tid) IN
    /\ IF IsNull(task)
       THEN /\ Respond("comment", c, tid, [content |-> content], "NotFound")
            /\ UNCHANGED tasks
       ELSE IF c.role # "admin" /\ The(task).assignedTo # c.id
                                /\ The(task).createdBy # c.id
       THEN /\ Respond("comment", c, tid, [content |-> content], "Forbidden")
            /\ UNCHANGED tasks
       ELSE IF content = <<>>
       THEN /\ Respond("comment", c, tid, [content |-> content], "ValidationFailed")
            /\ UNCHANGED tasks
       ELSE IF ~PreSaveDueDateOk(The(task), clock)
       THEN /\ Respond("comment", c, tid, [content |-> content], "ServerError")
            /\ UNCHANGED tasks
       ELSE /\ Len(The(task).comments) < MaxComments
            /\ tasks' = [tasks EXCEPT ![tid] =
                           SaveStamp(PushComment(The(task), content, c.id, clock), clock)]
            /\ Respond("comment", c, tid, [content |-> content], "Created")
    /\ UNCHANGED <<clock, usedIds, listing, authVars>>

-----------------------------------------------------------------------------
(* utils/jwt.js *)

Issuer == "scalable-rest-api"
Audience == "scalable-rest-api-users"

\* JWT_EXPIRE, the lifetime of a token, in ticks.
TokenTTL == 2

\* jwt.sign(payload, JWT_SECRET, {expiresIn, issuer, audience})
generateToken(payload, now) ==
    [kind |-> "jwt", id |-> payload.id, username |-> payload.username,
     role |-> payload.role, iat |-> now, exp |-> now + TokenTTL,
     iss |-> Issuer, aud |-> Audience, sig |-> "JWT_SECRET"]

\* jwt.verify(token, JWT_SECRET, {issuer, audience}) succeeds.
Verifies(token, now) ==
    /\ token.kind = "jwt"
    /\ token.sig = "JWT_SECRET"
    /\ token.iss = Issuer
    /\ token.aud = Audience
    /\ now < token.exp

\* A verifyToken that tells an expired token from the other failures.
verifyTokenNamesExpiry(token, now) ==
    IF Verifies(token, now)
    THEN [ok |-> TRUE, decoded |-> token]
    ELSE IF token.kind = "jwt" /\ now >= token.exp
    THEN [ok |-> FALSE, error |-> "TokenExpired"]
    ELSE [ok |-> FALSE, error |-> "InvalidToken"]

\* verifyToken: the decoded payload, or the one error 'Invalid or expired token'.
verifyToken(token, now) ==
    IF Verifies(token, now)
    THEN [ok |-> TRUE, decoded |-> token]
    ELSE [ok |-> FALSE, error |-> "InvalidToken"]

\* An Authorization header is null (not sent) or its first seven characters
\* (fewer when the header is shorter) and the text after them (a token, or
\* nothing).
BearerPrefix == <<"B", "e", "a", "r", "e", "r", " ">>

Header(prefix, rest) == Some([prefix |-> prefix, rest |-> rest])

\* A header read from its text: authHeader.substring(0, 7) and
\* authHeader.substring(7).
ReadHeader(text) ==
    IF IsNull(text) THEN Null
    ELSE LET t == The(text) IN
         IF Len(t) <= 7 THEN Header(t, Null)
         ELSE Header(SubSeq(t, 1, 7), Some(SubSeq(t, 8, Len(t))))

\* An extractToken that accepts every scheme.
extractTokenAnyScheme(authHeader) ==
    IF IsNull(authHeader) \/ The(authHeader).prefix = <<>>
    THEN [ok |-> FALSE, error |-> "MissingAuth"]
    ELSE IF IsNull(The(authHeader).rest)
    THEN [ok |-> FALSE, error |-> "MalformedAuth"]
    ELSE [ok |-> TRUE, token |-> The(The(authHeader).rest)]

\* extractToken: !authHeader holds for a header not sent and for the empty
\* string.
extractToken(authHeader) ==
    IF IsNull(authHeader) \/ The(authHeader).prefix = <<>>
    THEN [ok |-> FALSE, error |-> "MissingAuth"]
    ELSE IF The(authHeader).prefix # BearerPrefix
    THEN [ok |-> FALSE, error |-> "MalformedAuth"]
    ELSE IF IsNull(The(authHeader).rest)
    THEN [ok |-> FALSE, error |-> "MalformedAuth"]
    ELSE [ok |-> TRUE, token |-> The(The(authHeader).rest)]

-----------------------------------------------------------------------------
(* models/User.js *)

\* userSchema.methods.changedPasswordAfter(iat)
changedPasswordAfter(user, iat) ==
    ~IsNull(user.passwordChangedAt) /\ iat < The(user.passwordChangedAt)

\* userSchema.methods.comparePassword(candidate)
comparePassword(user, candidate) == user.password = candidate

\* User.create({username, email, password, profile}) with the schema defaults.
NewUserDoc(username, email, password) ==
    [username |-> username, email |-> email, password |-> password,
     role |-> "user", isActive |-> TRUE, passwordChangedAt |-> Null]

\* pre('save'): a modified password moves the passwordChangedAt watermark.
SavePassword(user, newPassword, now) ==
    [user EXCEPT !.password = newPassword, !.passwordChangedAt = Some(now)]

-----------------------------------------------------------------------------
(* middleware/auth.js *)

findUser(id) == IF id \in DOMAIN users THEN Some(users[id]) ELSE Null

\* authenticate without the comparison of iat with passwordChangedAt.
authenticateNoStaleCheck(authHeader) ==
    LET ex == extractToken(authHeader) IN
    IF ~ex.ok THEN [outcome |-> ex.error, user |-> Null]
    ELSE LET v == verifyToken(ex.token, clock) IN
    IF ~v.ok THEN [outcome |-> v.error, user |-> Null]
    ELSE LET user == findUser(v.decoded.id) IN
    IF IsNull(user) THEN [outcome |-> "UnknownSubject", user |-> Null]
    ELSE IF ~The(user).isActive THEN [outcome |-> "Deactivated", user |-> Null]
    ELSE [outcome |-> "Authenticated", user |-> Some(v.decoded.id)]

\* authenticate with the comparison made before the isActive test.
authenticateStaleBeforeActive(authHeader) ==
    LET ex == extractToken(authHeader) IN
    IF ~ex.ok THEN [outcome |-> ex.error, user |-> Null]
    ELSE LET v == verifyToken(ex.token, clock) IN
    IF ~v.ok THEN [outcome |-> v.error, user |-> Null]
    ELSE LET user == findUser(v.decoded.id) IN
    IF IsNull(user) THEN [outcome |-> "UnknownSubject", user |-> Null]
    ELSE IF changedPasswordAfter(The(user), v.decoded.iat)
    THEN [outcome |-> "StaleCredential", user |-> Null]
    ELSE IF ~The(user).isActive THEN [outcome |-> "Deactivated", user |-> Null]
    ELSE [outcome |-> "Authenticated", user |-> Some(v.decoded.id)]

\* authenticate without the isActive test.
authenticateNoActiveCheck(authHeader) ==
    LET ex == extractToken(authHeader) IN
    IF ~ex.ok THEN [outcome |-> ex.error, user |-> Null]
    ELSE LET v == verifyToken(ex.token, clock) IN
    IF ~v.ok THEN [outcome |-> v.error, user |-> Null]
    ELSE LET user == findUser(v.decoded.id) IN
    IF IsNull(user) THEN [outcome |-> "UnknownSubject", user |-> Null]
    ELSE IF changedPasswordAfter(The(user), v.decoded.iat)
    THEN [outcome |-> "StaleCredential", user |-> Null]
    ELSE [outcome |-> "Authenticated", user |-> Some(v.decoded.id)]

\* authenticate: the checks, in the order of the code, up to the decision.
\* The result is the rejection, or the user document attached to the request.
authenticate(authHeader) ==
    LET ex == extractToken(authHeader) IN
    IF ~ex.ok THEN [outcome |-> ex.error, user |-> Null]
    ELSE LET v == verifyToken(ex.token, clock) IN
    IF ~v.ok THEN [outcome |-> v.error, user |-> Null]
    ELSE LET user == findUser(v.decoded.id) IN
    IF IsNull(user) THEN [outcome |-> "UnknownSubject", user |-> Null]
    ELSE IF ~The(user).isActive THEN [outcome |-> "Deactivated", user |-> Null]
    ELSE IF changedPasswordAfter(The(user), v.decoded.iat)
    THEN [outcome |-> "StaleCredential", user |-> Null]
    ELSE [outcome |-> "Authenticated", user |-> Some(v.decoded.id)]

\* user.lastLogin = new Date(); user.save(): the save writes the one modified
\* path.  lastLogin is read by no handler and no middleware and is not part
\* of the user document of the model, so the save leaves the document as the
\* collection holds it.
TouchLastLogin(us, id, now) == us

\* authorize(...roles)
authorize(roles, user) == user.role \in roles

\* What a request left behind: the route, the header it carried, the outcome
\* of authenticate, whether the handler ran (next() was called and authorize
\* passed), the handler's answer, the time of the request, and the users and
\* the followed tokens as the request found them.
Served(op, header, outcome, handled, result) ==
    auth' = [op |-> op, header |-> header, outcome |-> outcome,
             handled |-> handled, result |-> result,
             at |-> clock, before |-> users, issued |-> tokens]

\* The users collection a handler behind authenticate reads: the caller's
\* lastLogin has been saved.
Touched(id) == TouchLastLogin(users, id, clock)

\* A route behind authenticate (and authorize when roles is not empty):
\* handler[id] is the effect of the route's handler for the caller id, given
\* as [users, result].
Protected(op, header, roles, handler) ==
    LET a == authenticate(header) IN
    IF a.outcome # "Authenticated"
    THEN /\ Served(op, header, a.outcome, FALSE, "Unauthorized")
         /\ UNCHANGED users
    ELSE LET id == The(a.user) IN
         IF roles # {} /\ ~authorize(roles, Touched(id)[id])
         THEN /\ Served(op, header, a.outcome, FALSE, "Forbidden")
              /\ users' = Touched(id)
         ELSE /\ Served(op, header, a.outcome, TRUE, handler[id].result)
              /\ users' = handler[id].users

-----------------------------------------------------------------------------
(* controllers/authController.js *)

\* Tokens are held by clients.  The model follows one token per account: a
\* newly issued token takes the place of the account's older one, or the
\* older one stays the followed one.
Issue(token) ==
    \E follow \in BOOLEAN :
        tokens' = IF ~follow /\ (\E t \in tokens : t.id = token.id)
                  THEN tokens
                  ELSE {t \in tokens : t.id # token.id} \cup {token}

findByEmailOrUsername(us, email, username) ==
    {id \in DOMAIN us : us[id].email = email \/ us[id].username = username}

\* The document register hands to User.create, with the whole body in it.
registerDataWholeBody(body) == body

\* const { username, email, password, firstName, lastName } = req.body and
\* the object register hands to User.create (the profile names are not part
\* of the modelled document).
registerData(body) ==
    [k \in DOMAIN body \cap {"username", "email", "password"} |-> body[k]]

\* User.create(data): the paths of data, the schema defaults for the others.
UserCreate(data) ==
    LET defaults == NewUserDoc(data.username, data.email, data.password)
    IN [k \in DOMAIN defaults |-> IF Has(data, k) THEN data[k] ELSE defaults[k]]

\* What register left behind: Served, and the body of the request.
ServedBody(op, body, result) ==
    auth' = [op |-> op, header |-> Null, outcome |-> "Public", handled |-> TRUE,
             result |-> result, at |-> clock, before |-> users, issued |-> tokens,
             body |-> body]

\* register, for a body that carries username, email and password
registerBody(body) ==
    /\ IF findByEmailOrUsername(users, body.email, body.username) # {}
       THEN /\ ServedBody("register", body, "BadRequest")
            /\ UNCHANGED <<users, tokens>>
       ELSE /\ DOMAIN users # UserIds
            /\ LET id == CHOOSE i \in UserIds \ DOMAIN users : TRUE
                   doc == UserCreate(registerData(body))
               IN /\ users' = TouchLastLogin(Obj(id, doc) @@ users, id, clock)
                  /\ Issue(generateToken([id |-> id, username |-> doc.username,
                                          role |-> doc.role], clock))
            /\ ServedBody("register", body, "Created")
    /\ UNCHANGED <<clock, tasks, usedIds, resp, listing, pending>>

\* register
register(username, email, password) ==
    registerBody([username |-> username, email |-> email, password |-> password])

\* User.findByCredentials(email, password)
findByCredentials(email, password) ==
    {id \in DOMAIN users : users[id].email = email /\ comparePassword(users[id], password)}

\* login
login(email, password) ==
    /\ IF findByCredentials(email, password) = {}
       THEN /\ Served("login", Null, "Public", TRUE, "Unauthorized")
            /\ UNCHANGED <<users, tokens>>
       ELSE LET id == CHOOSE i \in findByCredentials(email, password) : TRUE IN
            /\ Issue(generateToken([id |-> id, username |-> users[id].username,
                                    role |-> users[id].role], clock))
            /\ users' = TouchLastLogin(users, id, clock)
            /\ Served("login", Null, "Public", TRUE, "OK")
    /\ UNCHANGED <<clock, tasks, usedIds, resp, listing, pending>>

\* getProfile
getProfile(header) ==
    /\ Protected("getProfile", header, {},
                 [id \in DOMAIN users |-> [users |-> Touched(id), result |-> "OK"]])
    /\ UNCHANGED <<clock, tokens, tasks, usedIds, resp, listing, pending>>

ProfileFields == {"username", "email", "profile.firstName", "profile.lastName",
                  "profile.avatar"}

\* updateProfile: the handler
updateProfileHandler(id, us, body) ==
    LET updates == [k \in DOMAIN body \cap {"username", "email"} |-> body[k]]
        existing == {i \in DOMAIN us :
                        \/ Has(updates, "username") /\ us[i].username = updates.username
                        \/ Has(updates, "email") /\ us[i].email = updates.email}
    IN IF DOMAIN updates # {} /\ existing # {}
       THEN [users |-> us, result |-> "BadRequest"]
       ELSE [users |-> [us EXCEPT ![id] =
                          [k \in DOMAIN us[id] |->
                              IF k \in DOMAIN updates THEN updates[k] ELSE us[id][k]]],
             result |-> "OK"]

\* updateProfile
updateProfile(header, body) ==
    /\ Protected("updateProfile", header, {},
                 [id \in DOMAIN users |-> updateProfileHandler(id, Touched(id), body)])
    /\ UNCHANGED <<clock, tokens, tasks, usedIds, resp, listing, pending>>

\* changePassword: the handler
changePasswordHandler(id, us, currentPassword, newPassword) ==
    IF ~comparePassword(us[id], currentPassword)
    THEN [users |-> us, result |-> "BadRequest"]
    ELSE [users |-> [us EXCEPT ![id] = SavePassword(@, newPassword, clock)],
          result |-> "OK"]

\* changePassword
changePassword(header, currentPassword, newPassword) ==
    /\ Protected("changePassword", header, {},
                 [id \in DOMAIN users |->
                    changePasswordHandler(id, Touched(id), currentPassword, newPassword)])
    /\ UNCHANGED <<clock, tokens, tasks, usedIds, resp, listing, pending>>

\* A logout that moves the caller's passwordChangedAt watermark.
logoutHandlerRevokes(id, us) ==
    [users |-> [us EXCEPT ![id].passwordChangedAt = Some(clock)], result |-> "OK"]

\* logout: the handler
logoutHandler(id, us) == [users |-> us, result |-> "OK"]

\* logout
logout(header) ==
    /\ Protected("logout", header, {},
                 [id \in DOMAIN users |-> logoutHandler(id, Touched(id))])
    /\ UNCHANGED <<clock, tokens, tasks, usedIds, resp, listing, pending>>

\* updateUserRole: the handler
updateUserRoleHandler(us, userId, role) ==
    IF role \notin Roles THEN [users |-> us, result |-> "ValidationFailed"]
    ELSE IF userId \notin DOMAIN us THEN [users |-> us, result |-> "NotFound"]
    ELSE [users |-> [us EXCEPT ![userId].role = role], result |-> "OK"]

\* updateUserRole (admin only)
updateUserRole(header, userId, role) ==
    /\ Protected("updateUserRole", header, {"admin"},
                 [id \in DOMAIN users |-> updateUserRoleHandler(Touched(id), userId, role)])
    /\ UNCHANGED <<clock, tokens, tasks, usedIds, resp, listing, pending>>

\* deactivateUser: the handler
deactivateUserHandler(us, userId) ==
    IF userId \notin DOMAIN us THEN [users |-> us, result |-> "NotFound"]
    ELSE [users |-> [us EXCEPT ![userId].isActive = FALSE], result |-> "OK"]

\* deactivateUser (admin only)
deactivateUser(header, userId) ==
    /\ Protected("deactivateUser", header, {"admin"},
                 [id \in DOMAIN users |-> deactivateUserHandler(Touched(id), userId)])
    /\ UNCHANGED <<clock, tokens, tasks, usedIds, resp, listing, pending>>

\* The clock advances.
Tick ==
    /\ clock < MaxClock
    /\ clock' = clock + 1
    /\ UNCHANGED <<tasks, usedIds, resp, listing, authVars>>

-----------------------------------------------------------------------------
(* controllers/taskController.js: getTasks *)

\* Case folding of the regex option 'i'.
Lower(ch) == CASE ch = "A" -> "a" [] ch = "F" -> "f" [] ch = "I" -> "i" [] OTHER -> ch

LowerText(t) == [i \in 1..Len(t) |-> Lower(t[i])]

\* { $regex: term, $options: 'i' } on a text field: the folded term occurs
\* in the folded text.
RegexMatch(text, term) ==
    \E i \in 1..(Len(text) - Len(term) + 1) :
        SubSeq(LowerText(text), i, i + Len(term) - 1) = LowerText(term)

\* One condition of a MongoDB filter on one path of a document.
MatchCond(task, path, cond) ==
    CASE cond.op = "eq"    -> task[path] = cond.val
      [] cond.op = "nin"   -> task[path] \notin cond.val
      [] cond.op = "lt"    -> ~IsNull(task[path]) /\ The(task[path]) < cond.val
      [] cond.op = "range" -> /\ ~IsNull(task[path])
                              /\ The(task[path]) >= cond.val[1]
                              /\ The(task[path]) < cond.val[2]
      [] cond.op = "regex" -> RegexMatch(task[path], cond.val)

\* A filter object: every key must match; the key $or holds a list of
\* clauses of which one must match.
Matches(task, filter) ==
    \A k \in DOMAIN filter :
        IF k = "$or"
        THEN \E i \in 1..Len(filter[k]) :
                MatchCond(task, filter[k][i].path, filter[k][i].cond)
        ELSE MatchCond(task, k, filter[k])

Eq(v) == [op |-> "eq", val |-> v]
Clause(path, cond) == [path |-> path, cond |-> cond]

\* Length of a day in ticks (tomorrow.setDate(tomorrow.getDate() + 1)).
OneDay == 2

\* filter.k = v on a JavaScript object.
Set(filter, k, v) == Obj(k, v) @@ filter

\* The filter getTasks builds, statement by statement.
ScopeFilter(c) ==
    IF c.role # "admin"
    THEN Obj("$or", <<Clause("assignedTo", Eq(c.id)), Clause("createdBy", Eq(c.id))>>)
    ELSE Empty

EqualityFilters(filter, q) ==
    LET f1 == IF Has(q, "status") THEN Set(filter, "status", Eq(q.status)) ELSE filter
        f2 == IF Has(q, "priority") THEN Set(f1, "priority", Eq(q.priority)) ELSE f1
        f3 == IF Has(q, "category") THEN Set(f2, "category", Eq(q.category)) ELSE f2
        f4 == IF Has(q, "assignedTo") THEN Set(f3, "assignedTo", Eq(q.assignedTo)) ELSE f3
        f5 == IF Has(q, "createdBy") THEN Set(f4, "createdBy", Eq(q.createdBy)) ELSE f4
    IN IF Has(q, "isArchived")
       THEN Set(f5, "isArchived", Eq(q.isArchived = "true"))
       ELSE f5

\* Date filters where overdue does not touch the status condition.
DateFiltersOverdueAnyStatus(filter, q, now) ==
    IF ~Has(q, "dueDate") THEN filter
    ELSE IF q.dueDate = "overdue"
    THEN Set(filter, "dueDate", [op |-> "lt", val |-> now])
    ELSE IF q.dueDate = "today"
    THEN Set(filter, "dueDate", [op |-> "range", val |-> <<now, now + OneDay>>])
    ELSE filter

DateFilters(filter, q, now) ==
    IF ~Has(q, "dueDate") THEN filter
    ELSE IF q.dueDate = "overdue"
    THEN Set(Set(filter, "dueDate", [op |-> "lt", val |-> now]),
             "status", [op |-> "nin", val |-> {"completed", "cancelled"}])
    ELSE IF q.dueDate = "today"
    THEN Set(filter, "dueDate", [op |-> "range", val |-> <<now, now + OneDay>>])
    ELSE filter

\* The search clauses set only where the filter has no $or yet.
SearchFilterKeepsScope(filter, q) ==
    IF Has(q, "search") /\ q.search # <<>> /\ ~Has(filter, "$or")
    THEN Set(filter, "$or",
             <<Clause("title", [op |-> "regex", val |-> q.search]),
               Clause("description", [op |-> "regex", val |-> q.search]),
               Clause("category", [op |-> "regex", val |-> q.search])>>)
    ELSE filter

SearchFilter(filter, q) ==
    IF Has(q, "search") /\ q.search # <<>>
    THEN Set(filter, "$or",
             <<Clause("title", [op |-> "regex", val |-> q.search]),
               Clause("description", [op |-> "regex", val |-> q.search]),
               Clause("category", [op |-> "regex", val |-> q.search])>>)
    ELSE filter

BuildFilter(c, q, now) ==
    SearchFilter(DateFilters(EqualityFilters(ScopeFilter(c), q), q, now), q)

\* parseInt(x) || dflt
ParseOr(q, k, dflt) == IF Has(q, k) /\ q[k] # 0 THEN q[k] ELSE dflt

\* sortBy: { createdAt: -1 } unless the query names field:direction.
SortSpec(q) ==
    IF Has(q, "sortBy")
    THEN [field |-> q.sortBy[1], dir |-> IF q.sortBy[2] = "desc" THEN -1 ELSE 1]
    ELSE [field |-> "createdAt", dir |-> -1]

\* The orders of the ids S that .sort(sortBy) can return: ascending or
\* descending on the field, documents with equal keys in any order.
SortedOrders(S, sort) ==
    {s \in [1..Cardinality(S) -> S] :
        /\ \A i, j \in 1..Cardinality(S) : i # j => s[i] # s[j]
        /\ \A i, j \in 1..Cardinality(S) :
              i < j => sort.dir * tasks[s[i]][sort.field]
                          <= sort.dir * tasks[s[j]][sort.field]}

\* .skip(skip).limit(limit)
Page(order, skip, limit) ==
    SubSeq(order, skip + 1, IF skip + limit < Len(order) THEN skip + limit ELSE Len(order))

CeilDiv(a, b) == (a + b - 1) \div b

\* What the client has been sent so far while paging through one listing:
\* page number -> items, for the requests of the same caller with the same
\* query parameters other than page.
Paging(q) == [k \in DOMAIN q \ {"page"} |-> q[k]]

Earlier(c, q) ==
    IF listing.caller = c /\ Paging(listing.query) = Paging(q)
    THEN listing.session ELSE Empty

\* getTasks: the handler, for the req.user the middleware attached.
getTasksHandler(c, q) ==
    LET page == ParseOr(q, "page", 1)
        limit == ParseOr(q, "limit", 10)
        skip == (page - 1) * limit
        filter == BuildFilter(c, q, clock)
        found == {t \in DOMAIN tasks : Matches(tasks[t], filter)}
    IN
    \E order \in SortedOrders(found, SortSpec(q)) :
        listing' = [caller |-> c, query |-> q, filter |-> filter,
                    items |-> Page(order, skip, limit),
                    total |-> Cardinality(found),
                    pages |-> CeilDiv(Cardinality(found), limit),
                    session |-> Obj(page, Page(order, skip, limit))
                                @@ Earlier(c, q)]

\* getTasks
getTasks(c, q) ==
    /\ getTasksHandler(c, q)
    /\ UNCHANGED <<clock, tasks, usedIds, resp, authVars>>

-----------------------------------------------------------------------------
(* Spec: the task controller, one request at a time *)

\* Request bodies of createTask and updateTask.
Opt(k, values) == {Empty} \cup {Obj(k, v) : v \in values}

Bodies ==
    {tl @@ st @@ asg :
        tl \in Opt("title", {<<"a">>}),
        st \in Opt("status", {"pending", "completed"}),
        asg \in Opt("assignedTo", UserIds)}

NoResp == [op |-> "none", caller |-> [id |-> "admin", role |-> "admin"], tid |-> "none",
           body |-> Empty, result |-> "none", before |-> <<>>]

NoListing == [caller |-> [id |-> "admin", role |-> "admin"], query |-> Empty,
              filter |-> Empty, items |-> <<>>, total |-> 0, pages |-> 0,
              session |-> Empty]

InitAuthIdle ==
    /\ users = <<>>
    /\ tokens = {}
    /\ auth = [op |-> "none"]
    /\ pending = <<>>

Init ==
    /\ clock = 0
    /\ tasks = <<>>
    /\ usedIds = {}
    /\ resp = NoResp
    /\ listing = NoListing
    /\ InitAuthIdle

Next ==
    \/ \E c \in Callers, b \in Bodies : createTask(c, b)
    \/ \E c \in Callers, t \in TaskIds : getTask(c, t)
    \/ \E c \in Callers, t \in TaskIds, b \in Bodies : updateTask(c, t, b)
    \/ \E c \in Callers, t \in TaskIds : deleteTask(c, t)
    \/ \E c \in Callers, t \in TaskIds : addComment(c, t, <<"a">>)

Spec == Init /\ [][Next]_vars

-----------------------------------------------------------------------------
(* Properties of the task controller (Spec) *)

\* The task a request loaded, as the collection held it when the request came.
Loaded == IF resp.tid \in DOMAIN resp.before THEN Some(resp.before[resp.tid]) ELSE Null

IsOwner(task, userId) == task.assignedTo = userId \/ task.createdBy = userId

Untouched == tasks = resp.before

\* C2: an update, delete or addComment on an existing task by a non-admin
\* caller who is neither its assignee nor its creator is answered Forbidden
\* and leaves the collection as it was.
C2_NonOwnerRejected ==
    (/\ resp.op \in {"update", "delete", "comment"}
     /\ resp.caller.role # "admin"
     /\ ~IsNull(Loaded)
     /\ ~IsOwner(The(Loaded), resp.caller.id))
    => (resp.result = "Forbidden" /\ Untouched)

C2_Witness ==
    /\ resp.op = "update"
    /\ Has(resp.body, "status")
    /\ resp.caller.role # "admin"
    /\ ~IsNull(Loaded)
    /\ ~IsOwner(The(Loaded), resp.caller.id)
    /\ resp.result = "Forbidden"

\* C3 (as claimed): completedAt is non-null exactly when status is completed,
\* after any sequence of creates and updates.
C3_CompletedAtIffCompleted ==
    \A t \in DOMAIN tasks :
        (~IsNull(tasks[t].completedAt)) <=> (tasks[t].status = "completed")

C7_GetTaskOwnership ==
    resp.op = "get" =>
        /\ IsNull(Loaded) => resp.result = "NotFound"
        /\ (~IsNull(Loaded) /\ resp.caller.role # "admin") =>
              /\ (resp.result = "OK") <=> IsOwner(The(Loaded), resp.caller.id)
              /\ resp.result \in {"OK", "Forbidden"}

\* A creator who is no longer the assignee reads the task.
C7_Witness ==
    /\ resp.op = "get"
    /\ resp.caller.role # "admin"
    /\ ~IsNull(Loaded)
    /\ The(Loaded).createdBy = resp.caller.id
    /\ The(Loaded).assignedTo # resp.caller.id
    /\ resp.result = "OK"

\* C8: a caller with role admin is never answered Forbidden: not by get,
\* update, delete or addComment on an existing task, and not by a create or
\* an update that submits assignedTo.
C8_AdminNeverForbidden ==
    resp.caller.role = "admin" =>
        /\ (resp.op \in {"get", "update", "delete", "comment"} /\ ~IsNull(Loaded))
              => resp.result # "Forbidden"
        /\ (resp.op \in {"create", "update"} /\ Has(resp.body, "assignedTo"))
              => resp.result # "Forbidden"

\* An admin who owns no part of the task reassigns it.
C8_Witness ==
    /\ resp.op = "update"
    /\ resp.caller.role = "admin"
    /\ ~IsNull(Loaded)
    /\ ~IsOwner(The(Loaded), resp.caller.id)
    /\ Has(resp.body, "assignedTo")
    /\ resp.body.assignedTo # The(Loaded).assignedTo
    /\ resp.result = "OK"
    /\ tasks[resp.tid].assignedTo = resp.body.assignedTo

-----------------------------------------------------------------------------
(* SpecQuery: getTasks over the collections createTask can have built *)

QueryIds == {"t1", "t2"}

\* Documents as createTask persists them: a non-admin creator is the assignee,
\* an admin may have assigned anyone.
QueryPool ==
    {NewTaskDoc(Obj("title", doc[1]) @@ Obj("createdBy", own[1])
                    @@ Obj("assignedTo", own[2]), doc[2]) :
        doc \in {<<(<<"F", "i", "x">>), 0>>, <<(<<"a", "b">>), 1>>},
        own \in {<<"admin", "admin">>, <<"admin", "user">>, <<"user", "user">>}}

Queries ==
    {st @@ asg @@ se @@ so @@ lim :
        st \in Opt("status", {"pending"}),
        asg \in Opt("assignedTo", {"user"}),
        se \in Opt("search", {<<"f", "I">>}),
        so \in Opt("sortBy", {<<"createdAt", "asc">>}),
        lim \in Opt("limit", {1})}

InitQuery ==
    /\ clock = 1
    /\ \E ids \in SUBSET QueryIds : tasks \in [ids -> QueryPool]
    /\ usedIds = DOMAIN tasks
    /\ resp = NoResp
    /\ listing = NoListing
    /\ InitAuthIdle

NextQuery == \E c \in Callers, q \in Queries : getTasks(c, q)

SpecQuery == InitQuery /\ [][NextQuery]_vars

\* C1 (as claimed): every task getTasks returns to a non-admin caller has the
\* caller as assignee or creator, whatever the query parameters.
C1_ListWithinScope ==
    listing.caller.role # "admin" =>
        \A i \in 1..Len(listing.items) :
            IsOwner(tasks[listing.items[i]], listing.caller.id)

-----------------------------------------------------------------------------
(* SpecAuth: tokens over time *)

\* The users collection after mongo-init.js.
SeedUsers ==
    Obj("admin", [username |-> "admin", email |-> "admin@example.com",
                  password |-> "Admin123!", role |-> "admin", isActive |-> TRUE,
                  passwordChangedAt |-> Some(0)])
    @@ Obj("user", [username |-> "user", email |-> "user@example.com",
                    password |-> "User123!", role |-> "user", isActive |-> TRUE,
                    passwordChangedAt |-> Some(0)])

NoAuth == [op |-> "none", header |-> Null, outcome |-> "none", handled |-> FALSE,
           result |-> "none", at |-> 0, before |-> <<>>, issued |-> {}]

InitTasksIdle ==
    /\ tasks = <<>>
    /\ usedIds = {}
    /\ resp = NoResp
    /\ listing = NoListing

InitAuth ==
    /\ clock = 0
    /\ users = SeedUsers
    /\ tokens = {}
    /\ auth = NoAuth
    /\ pending = <<>>
    /\ InitTasksIdle

\* A token signed with another key, a string that is no JWT, and a token this
\* server signed for an account that is not in the collection (signed before
\* mongo-init.js re-created the database).
ForgedToken == [generateToken([id |-> "admin", username |-> "admin", role |-> "admin"], 0)
                   EXCEPT !.sig = "other"]
GarbageToken == [kind |-> "garbage"]
OrphanToken == generateToken([id |-> "ghost", username |-> "ghost", role |-> "user"], 0)
WrongIssuerToken ==
    [generateToken([id |-> "admin", username |-> "admin", role |-> "admin"], 0)
        EXCEPT !.iss = "other-api"]
WrongAudienceToken ==
    [generateToken([id |-> "admin", username |-> "admin", role |-> "admin"], 0)
        EXCEPT !.aud = "other-users"]

\* The headers clients send with the tokens they hold.
TokenHeaders == {Header(BearerPrefix, Some(t)) : t \in tokens}

\* Every kind of header: none, no token, another scheme, a held token under
\* another scheme, and the tokens above.
Headers ==
    {Null, Header(<<>>, Null), Header(BearerPrefix, Null),
     Header(<<"B", "a", "s", "i", "c", " ">>, Null)}
    \cup {Header(<<"b", "e", "a", "r", "e", "r", " ">>, Some(t)) : t \in tokens}
    \cup {Header(BearerPrefix, Some(t)) :
            t \in {ForgedToken, GarbageToken, OrphanToken, WrongIssuerToken,
                   WrongAudienceToken}}
    \cup TokenHeaders

Passwords == {"Admin123!", "User123!"}
Emails == {"admin@example.com", "user@example.com"}

NextAuth ==
    \/ \E e \in Emails, p \in Passwords : login(e, p)
    \/ \E h \in Headers : getProfile(h)
    \/ \E h \in TokenHeaders, cur \in Passwords, new \in Passwords : changePassword(h, cur, new)
    \/ \E h \in TokenHeaders : logout(h)
    \/ \E h \in TokenHeaders, u \in UserIds : deactivateUser(h, u)
    \/ Tick

SpecAuth == InitAuth /\ [][NextAuth]_vars

-----------------------------------------------------------------------------
(* SpecAuth: what authenticate answers *)

BearerOf(t) == Header(BearerPrefix, Some(t))
TokenOf(header) == The(The(header).rest)

ProtectedOps == {"getProfile", "updateProfile", "changePassword", "logout",
                 "updateUserRole", "deactivateUser"}

\* The account of token t is in us and moved its watermark after t was issued.
IssuedBeforeChange(t, us) ==
    /\ t.id \in DOMAIN us
    /\ ~IsNull(us[t.id].passwordChangedAt)
    /\ t.iat < The(us[t.id].passwordChangedAt)

\* A successful changePassword leaves the watermark at the time of the change.
ChangeSetsWatermark ==
    (auth.op = "changePassword" /\ auth.handled /\ auth.result = "OK")
        => users[TokenOf(auth.header).id].passwordChangedAt = Some(auth.at)

\* A token issued at or after the watermark is not rejected as stale.
FreshNotStale ==
    \A t \in tokens :
        (t.id \in DOMAIN users /\ ~IssuedBeforeChange(t, users))
            => authenticate(BearerOf(t)).outcome # "StaleCredential"

NotSent(h) == IsNull(h) \/ (The(h).prefix = <<>> /\ IsNull(The(h).rest))

\* The steps of authenticate a request passed, each including the ones before.
PassedExtract(h) ==
    /\ ~IsNull(h)
    /\ The(h).prefix = BearerPrefix
    /\ ~IsNull(The(h).rest)
PassedVerify(h, now) == PassedExtract(h) /\ Verifies(TokenOf(h), now)
PassedLookup(h, us, now) == PassedVerify(h, now) /\ TokenOf(h).id \in DOMAIN us
PassedActive(h, us, now) == PassedLookup(h, us, now) /\ us[TokenOf(h).id].isActive
PassedStale(h, us, now) ==
    PassedActive(h, us, now) /\ ~IssuedBeforeChange(TokenOf(h), us)

\* C6: a request behind authenticate is answered with the rejection of the
\* first step that fails, in the order extraction, verification, lookup,
\* active flag, stale comparison; it is Authenticated only when all five
\* pass; the handler runs only for an Authenticated request and a rejected
\* request leaves the users collection as it found it.
C6_FirstFailingCheck ==
    auth.op \in ProtectedOps =>
        LET h == auth.header
            us == auth.before
            now == auth.at
        IN /\ NotSent(h) => auth.outcome = "MissingAuth"
           /\ (~NotSent(h) /\ ~PassedExtract(h)) => auth.outcome = "MalformedAuth"
           /\ (PassedExtract(h) /\ ~PassedVerify(h, now))
                  => auth.outcome = "InvalidToken"
           /\ (PassedVerify(h, now) /\ ~PassedLookup(h, us, now))
                  => auth.outcome = "UnknownSubject"
           /\ (PassedLookup(h, us, now) /\ ~PassedActive(h, us, now))
                  => auth.outcome = "Deactivated"
           /\ (PassedActive(h, us, now) /\ ~PassedStale(h, us, now))
                  => auth.outcome = "StaleCredential"
           /\ PassedStale(h, us, now) => auth.outcome = "Authenticated"
           /\ auth.handled => auth.outcome = "Authenticated"
           /\ auth.outcome # "Authenticated" => (~auth.handled /\ users = us)

\* A request whose token fails two steps at once (the account is deactivated
\* and changed its password after the token was issued) got the rejection of
\* the earlier step.
C6_Witness ==
    /\ auth.op \in ProtectedOps
    /\ auth.outcome = "Deactivated"
    /\ IssuedBeforeChange(TokenOf(auth.header), auth.before)

-----------------------------------------------------------------------------
(* SpecAccounts: every operation on accounts, at one instant *)

NewEmails == {"bob@example.com", "user@example.com"}
AllEmails == Emails \cup NewEmails
AllPasswords == Passwords \cup {"Bob123!"}

\* Bodies of updateProfile: fields the handler accepts and fields it does not.
ProfileBodies ==
    {Obj("isActive", TRUE) @@ Obj("role", "admin"),
     Obj("username", "neo") @@ Obj("isActive", TRUE)}

\* Bodies of register: username, email and password, alone or with a role
\* and a state of the client's choosing.
RegisterBodies ==
    {Obj("username", "bob") @@ Obj("email", e) @@ Obj("password", "Bob123!") @@ extra :
        e \in NewEmails,
        extra \in {Empty, Obj("role", "admin") @@ Obj("isActive", FALSE)}}

NextAccounts ==
    \/ \E b \in RegisterBodies : registerBody(b)
    \/ \E e \in AllEmails, p \in AllPasswords : login(e, p)
    \/ \E h \in TokenHeaders : getProfile(h)
    \/ \E h \in TokenHeaders, b \in ProfileBodies : updateProfile(h, b)
    \/ \E h \in TokenHeaders, cur \in AllPasswords : changePassword(h, cur, cur)
    \/ \E h \in TokenHeaders, u \in {"user", "bob"}, r \in Roles : updateUserRole(h, u, r)
    \/ \E h \in TokenHeaders, u \in UserIds : deactivateUser(h, u)

SpecAccounts == InitAuth /\ [][NextAccounts]_vars

\* C9: a request whose token verifies and whose account is deactivated is
\* answered Deactivated and its handler does not run, the same answer
\* authenticate gives for every such token in every state; and no operation
\* (register, login, updateProfile, changePassword, updateUserRole,
\* deactivateUser) makes a deactivated account active again.
C9_DeactivatedStaysRejected ==
    /\ (/\ auth.op \in ProtectedOps
        /\ PassedLookup(auth.header, auth.before, auth.at)
        /\ ~auth.before[TokenOf(auth.header).id].isActive)
          => (auth.outcome = "Deactivated" /\ ~auth.handled)
    /\ \A t \in tokens :
          (Verifies(t, clock) /\ t.id \in DOMAIN users /\ ~users[t.id].isActive)
              => authenticate(BearerOf(t)).outcome = "Deactivated"
    /\ \A id \in DOMAIN auth.before :
          ~auth.before[id].isActive => (id \in DOMAIN users /\ ~users[id].isActive)

\* A deactivated account asked to update its profile with a token that
\* verifies and was answered Deactivated.
C9_Witness ==
    /\ auth.op = "updateProfile"
    /\ auth.outcome = "Deactivated"
    /\ ~auth.before[TokenOf(auth.header).id].isActive
    /\ ~users[TokenOf(auth.header).id].isActive

-----------------------------------------------------------------------------
(* SpecAuth: verifyToken *)

\* The ways a token fails jwt.verify.
Malformed(t) == t.kind # "jwt"
BadSignature(t) == t.kind = "jwt" /\ t.sig # "JWT_SECRET"
WrongIssuerOrAudience(t) == t.kind = "jwt" /\ (t.iss # Issuer \/ t.aud # Audience)
Expired(t, now) == t.kind = "jwt" /\ t.exp <= now

InvalidTokenError == [ok |-> FALSE, error |-> "InvalidToken"]

\* The tokens requests of SpecAuth carry.
SentTokens ==
    tokens \cup {ForgedToken, GarbageToken, OrphanToken, WrongIssuerToken,
                 WrongAudienceToken}

\* C11: verifyToken fails with the one error InvalidToken for a malformed
\* token, a bad signature, a wrong issuer or audience and an expired token;
\* a request carrying such a token is answered InvalidToken, and an expired
\* token is answered InvalidToken whatever the state of its subject
\* (missing, deactivated, password changed, active).
C11_OneInvalidTokenKind ==
    /\ \A t \in SentTokens :
          (Malformed(t) \/ BadSignature(t) \/ WrongIssuerOrAudience(t)
                \/ Expired(t, clock))
              <=> verifyToken(t, clock) = InvalidTokenError
    /\ \A t \in SentTokens :
          Expired(t, clock) => authenticate(BearerOf(t)).outcome = "InvalidToken"
    /\ (/\ auth.op \in ProtectedOps
        /\ PassedExtract(auth.header)
        /\ LET t == TokenOf(auth.header) IN
             Malformed(t) \/ BadSignature(t) \/ WrongIssuerOrAudience(t)
                \/ Expired(t, auth.at))
          => (auth.outcome = "InvalidToken" /\ ~auth.handled)

\* A request carried an expired token of a deactivated account and was
\* answered InvalidToken.
C11_Witness ==
    /\ auth.op = "getProfile"
    /\ auth.outcome = "InvalidToken"
    /\ TokenOf(auth.header) \in auth.issued
    /\ Expired(TokenOf(auth.header), auth.at)
    /\ ~auth.before[TokenOf(auth.header).id].isActive

-----------------------------------------------------------------------------
(* SpecHeader: extractToken on header texts *)

Schemes ==
    {SubSeq(BearerPrefix, 1, n) : n \in 0..7}
    \cup {<<"b", "e", "a", "r", "e", "r", " ">>, <<"B", "a", "s", "i", "c", " ">>,
          <<" ", "B", "e", "a", "r", "e", "r", " ">>,
          <<"B", "e", "a", "r", "e", "r", "x">>}

Tails ==
    {<<>>, <<"x">>, <<"x", "y">>, <<" ">>, <<" ", "x">>,
     <<"B", "e", "a", "r", "e", "r", " ", "x">>}

HeaderTexts == {Null} \cup {Some(sc \o tl) : sc \in Schemes, tl \in Tails}

InitHeader ==
    /\ clock = 0
    /\ users = <<>>
    /\ tokens = {}
    /\ \E text \in HeaderTexts : auth = [op |-> "header", text |-> text]
    /\ pending = <<>>
    /\ InitTasksIdle

\* const token = extractToken(req.header('Authorization'))
ExtractStep ==
    /\ auth.op = "header"
    /\ auth' = [op |-> "extractToken", text |-> auth.text,
                result |-> extractToken(ReadHeader(auth.text))]
    /\ UNCHANGED <<clock, tasks, usedIds, resp, listing, users, tokens, pending>>

NextHeader == ExtractStep

SpecHeader == InitHeader /\ [][NextHeader]_vars

StartsWithBearer(t) ==
    Len(t) >= Len(BearerPrefix) /\ \A i \in 1..Len(BearerPrefix) : t[i] = BearerPrefix[i]

\* C12: extractToken fails with MissingAuth for a header that is absent or
\* empty, with MalformedAuth for a header that does not start with 'Bearer '
\* or has nothing after it, and otherwise returns the text after the prefix.
C12_ExtractBearer ==
    auth.op = "extractToken" =>
        LET text == auth.text
            r == auth.result
        IN IF IsNull(text) \/ The(text) = <<>>
           THEN r = [ok |-> FALSE, error |-> "MissingAuth"]
           ELSE IF ~StartsWithBearer(The(text)) \/ Len(The(text)) = Len(BearerPrefix)
           THEN r = [ok |-> FALSE, error |-> "MalformedAuth"]
           ELSE r = [ok |-> TRUE,
                     token |-> SubSeq(The(text), Len(BearerPrefix) + 1, Len(The(text)))]

\* A header with the prefix and a token after it gave the token.
C12_Witness ==
    /\ auth.op = "extractToken"
    /\ auth.text = Some(BearerPrefix \o <<"x", "y">>)
    /\ auth.result = [ok |-> TRUE, token |-> <<"x", "y">>]

-----------------------------------------------------------------------------
(* Spec: writing a status again *)

\* A status write that repeats the status the task already has leaves
\* completedAt as it was, and the pre-save hook applied a second time to a
\* document it has already processed changes nothing.
RepeatedWriteKeepsCompletedAt ==
    /\ (/\ resp.op = "update"
        /\ resp.result = "OK"
        /\ Has(resp.body, "status")
        /\ The(Loaded).status = resp.body.status)
          => /\ tasks[resp.tid].status = resp.body.status
             /\ tasks[resp.tid].completedAt = The(Loaded).completedAt
    /\ \A t \in DOMAIN tasks, st \in Statuses, modified \in BOOLEAN :
          LET once == PreSaveCompletedAt([tasks[t] EXCEPT !.status = st], TRUE, clock)
              twice == PreSaveCompletedAt([once EXCEPT !.status = st], modified,
                                          clock + 1)
          IN twice = once

\* C13 (as claimed): writing the status a task already has yields the state
\* of the first write: a completed task keeps its completedAt value, and a
\* task whose non-completed status is written again has completedAt null.
C13_StatusWriteIdempotent ==
    /\ RepeatedWriteKeepsCompletedAt
    /\ (/\ resp.op = "update"
        /\ resp.result = "OK"
        /\ Has(resp.body, "status")
        /\ The(Loaded).status = resp.body.status
        /\ resp.body.status # "completed")
          => IsNull(tasks[resp.tid].completedAt)

-----------------------------------------------------------------------------
(* SpecPages: paging through a listing of a collection that does not change *)

\* Two tasks of one owner, created at the same instant or one after the other.
PagePool ==
    {NewTaskDoc(Obj("title", <<"a">>) @@ Obj("createdBy", "user")
                    @@ Obj("assignedTo", "user") @@ Obj("status", st), at) :
        st \in {"pending", "completed"}, at \in {0, 1}}

PageQueries ==
    {st @@ lim @@ pg :
        st \in Opt("status", {"pending"}),
        lim \in Opt("limit", {1, 2}),
        pg \in Opt("page", {1, 2, 3})}

InitPages ==
    /\ clock = 1
    /\ tasks \in [QueryIds -> PagePool]
    /\ usedIds = DOMAIN tasks
    /\ resp = NoResp
    /\ listing = NoListing
    /\ InitAuthIdle

NextPages == \E c \in {cl \in Callers : cl.id # "bob"}, q \in PageQueries : getTasks(c, q)

SpecPages == InitPages /\ [][NextPages]_vars

RECURSIVE ItemsOnPages(_, _)
ItemsOnPages(session, n) ==
    IF n = 0 THEN 0 ELSE Len(session[n]) + ItemsOnPages(session, n - 1)

\* The page and the count come from one predicate, pages = ceil(total / limit),
\* and the numbers of items on pages 1..pages add up to total.
PageCountsAddUp ==
    LET limit == ParseOr(listing.query, "limit", 10) IN
    listing.session # Empty =>
    /\ listing.total = Cardinality({t \in DOMAIN tasks : Matches(tasks[t], listing.filter)})
    /\ \A i \in 1..Len(listing.items) : Matches(tasks[listing.items[i]], listing.filter)
    /\ listing.pages = CeilDiv(listing.total, limit)
    /\ DOMAIN listing.session = 1..listing.pages
          => ItemsOnPages(listing.session, listing.pages) = listing.total

\* C14 (as claimed): for a collection that does not change, the page and the
\* count come from one predicate, pages = ceil(total / limit), the numbers of
\* items on pages 1..pages add up to total, and no task is returned on two
\* pages.
C14_PagesPartitionListing ==
    /\ PageCountsAddUp
    /\ \A p1, p2 \in DOMAIN listing.session :
          p1 # p2 =>
              \A i \in 1..Len(listing.session[p1]), j \in 1..Len(listing.session[p2]) :
                  listing.session[p1][i] # listing.session[p2][j]

-----------------------------------------------------------------------------
(* SpecDue: the date filters of getTasks *)

\* One task, created at 0 with a due date in its future or none, as the
\* collection holds it on day [2, 4): at midnight (2) or at midday (3).
DuePool ==
    {PreSaveCompletedAt(
        NewTaskDoc(Obj("title", <<"a">>) @@ Obj("createdBy", own) @@ Obj("assignedTo", own)
                       @@ Obj("status", st) @@ Obj("dueDate", due), 0),
        TRUE, 0) :
        own \in {"admin", "user"},
        st \in {"pending", "completed", "cancelled"},
        due \in {Null, Some(1), Some(2), Some(4)}}

DueQueries ==
    {Obj("dueDate", d) @@ st :
        d \in {"overdue", "today"},
        st \in Opt("status", {"pending", "completed"})}

InitDue ==
    /\ clock \in {2, 3}
    /\ tasks \in [{"t1"} -> DuePool]
    /\ usedIds = DOMAIN tasks
    /\ resp = NoResp
    /\ listing = NoListing
    /\ InitAuthIdle

NextDue == \E c \in Callers, q \in DueQueries : getTasks(c, q)

SpecDue == InitDue /\ [][NextDue]_vars

Listed == {listing.items[i] : i \in 1..Len(listing.items)}

\* C15: with dueDate=overdue every task returned has a dueDate before the
\* clock and a status other than completed and cancelled; a completed or
\* cancelled task and a task without dueDate are not returned.
C15_OverdueExcludesClosed ==
    (Has(listing.query, "dueDate") /\ listing.query.dueDate = "overdue") =>
        \A t \in Listed :
            /\ ~IsNull(tasks[t].dueDate)
            /\ The(tasks[t].dueDate) < clock
            /\ tasks[t].status \notin {"completed", "cancelled"}

\* An admin asked for the overdue tasks and the completed task whose dueDate
\* has passed was not returned.
C15_Witness ==
    /\ Has(listing.query, "dueDate")
    /\ listing.query.dueDate = "overdue"
    /\ listing.caller.role = "admin"
    /\ DOMAIN listing.query = {"dueDate"}
    /\ tasks["t1"].status = "completed"
    /\ ~IsNull(tasks["t1"].dueDate)
    /\ The(tasks["t1"].dueDate) < clock
    /\ Listed = {}

\* Midnight at the start of the day of now.
StartOfDay(now) == now - (now % OneDay)

\* C16 (as claimed): with dueDate=today the tasks returned are exactly the
\* tasks matching the rest of the filter whose dueDate lies in [midnight at
\* the start of the current day, midnight at the start of the next day),
\* whatever the time of day of the request.
C16_TodayIsCalendarDay ==
    (Has(listing.query, "dueDate") /\ listing.query.dueDate = "today") =>
        Listed = {t \in DOMAIN tasks :
                    Matches(tasks[t],
                            Set(listing.filter, "dueDate",
                                [op |-> "range",
                                 val |-> <<StartOfDay(clock),
                                           StartOfDay(clock) + OneDay>>]))}

-----------------------------------------------------------------------------
(* controllers/taskController.js: getTaskStats *)

\* Length of a calendar month in ticks, and the first instant of the month
\* of now: new Date(year, month, 1).
MonthLen == 4
StartOfMonth(now) == now - (now % MonthLen)

\* Task.find(filter) / $match
Find(filter) == {t \in DOMAIN tasks : Matches(tasks[t], filter)}

\* { $match: filter }, { $group: { _id: '$field', count: { $sum: 1 } } }
GroupCount(filter, field) ==
    [v \in {tasks[t][field] : t \in Find(filter)} |->
        Cardinality({t \in Find(filter) : tasks[t][field] = v})]

\* Statistics whose completedThisMonth counts the last MonthLen ticks.
getTaskStatsLastMonthLen(c) ==
    LET matchQuery == ScopeFilter(c)
        open == Set(matchQuery, "isArchived", Eq(FALSE))
        overdue == Set(Set(open, "dueDate", [op |-> "lt", val |-> clock]),
                       "status", [op |-> "nin", val |-> {"completed", "cancelled"}])
        thisMonth == Set(Set(matchQuery, "status", Eq("completed")),
                         "completedAt",
                         [op |-> "range",
                          val |-> <<clock - MonthLen, StartOfMonth(clock) + MonthLen>>])
    IN
    /\ resp' = [op |-> "stats", caller |-> c, tid |-> "none", body |-> Empty,
                result |-> "OK", before |-> tasks,
                data |-> [statusStats |-> GroupCount(open, "status"),
                          priorityStats |-> GroupCount(open, "priority"),
                          overdueTasks |-> Cardinality(Find(overdue)),
                          completedThisMonth |-> Cardinality(Find(thisMonth))]]
    /\ UNCHANGED <<clock, tasks, usedIds, listing, authVars>>

\* getTaskStats
getTaskStats(c) ==
    LET matchQuery == ScopeFilter(c)
        open == Set(matchQuery, "isArchived", Eq(FALSE))
        overdue == Set(Set(open, "dueDate", [op |-> "lt", val |-> clock]),
                       "status", [op |-> "nin", val |-> {"completed", "cancelled"}])
        thisMonth == Set(Set(matchQuery, "status", Eq("completed")),
                         "completedAt",
                         [op |-> "range",
                          val |-> <<StartOfMonth(clock), StartOfMonth(clock) + MonthLen>>])
    IN
    /\ resp' = [op |-> "stats", caller |-> c, tid |-> "none", body |-> Empty,
                result |-> "OK", before |-> tasks,
                data |-> [statusStats |-> GroupCount(open, "status"),
                          priorityStats |-> GroupCount(open, "priority"),
                          overdueTasks |-> Cardinality(Find(overdue)),
                          completedThisMonth |-> Cardinality(Find(thisMonth))]]
    /\ UNCHANGED <<clock, tasks, usedIds, listing, authVars>>

-----------------------------------------------------------------------------
(* SpecStats: statistics of a collection *)

\* Tasks as creates and updates leave them: of either owner or created by
\* admin for user, open or completed in the previous month (3) or in the
\* current one (4), archived or not, with a dueDate that has passed or none.
StatsPool ==
    {[NewTaskDoc(Obj("title", <<"a">>) @@ Obj("createdBy", own[1])
                    @@ Obj("assignedTo", own[2]), 0)
        EXCEPT !.status = done[1], !.completedAt = done[2],
               !.isArchived = arch, !.dueDate = due] :
        own \in {<<"admin", "admin">>, <<"admin", "user">>, <<"user", "user">>},
        done \in {<<"pending", Null>>, <<"completed", Some(3)>>,
                  <<"completed", Some(4)>>, <<"cancelled", Null>>},
        arch \in BOOLEAN,
        due \in {Null, Some(1)}}

InitStats ==
    /\ clock = 5
    /\ tasks \in [QueryIds -> StatsPool]
    /\ usedIds = DOMAIN tasks
    /\ resp = NoResp
    /\ listing = NoListing
    /\ InitAuthIdle

NextStats == \E c \in Callers : getTaskStats(c)

SpecStats == InitStats /\ [][NextStats]_vars

InScope(c, t) == c.role = "admin" \/ IsOwner(tasks[t], c.id)

CountOf(groups, v) == IF v \in DOMAIN groups THEN groups[v] ELSE 0

\* C17: the four statistics of a caller count only tasks in the caller's
\* scope (all tasks for an admin, tasks assigned to or created by the caller
\* otherwise); the counts by status and by priority and the overdue count
\* take non-archived tasks only; completedThisMonth counts the completed
\* tasks whose completedAt lies in the current calendar month.
C17_StatsWithinScope ==
    resp.op = "stats" =>
        LET c == resp.caller
            open == {t \in DOMAIN tasks : InScope(c, t) /\ ~tasks[t].isArchived}
        IN /\ \A st \in Statuses :
                 CountOf(resp.data.statusStats, st)
                    = Cardinality({t \in open : tasks[t].status = st})
           /\ \A pr \in Priorities :
                 CountOf(resp.data.priorityStats, pr)
                    = Cardinality({t \in open : tasks[t].priority = pr})
           /\ resp.data.overdueTasks
                 = Cardinality({t \in open :
                        /\ ~IsNull(tasks[t].dueDate)
                        /\ The(tasks[t].dueDate) < clock
                        /\ tasks[t].status \notin {"completed", "cancelled"}})
           /\ resp.data.completedThisMonth
                 = Cardinality({t \in DOMAIN tasks :
                        /\ InScope(c, t)
                        /\ tasks[t].status = "completed"
                        /\ ~IsNull(tasks[t].completedAt)
                        /\ The(tasks[t].completedAt) >= StartOfMonth(clock)
                        /\ The(tasks[t].completedAt) < StartOfMonth(clock) + MonthLen})

\* A non-admin asked for statistics while the collection holds a task of
\* another user and a task of the caller completed in the previous month,
\* less than a month ago: neither is counted.
C17_Witness ==
    /\ resp.op = "stats"
    /\ resp.caller.id = "user"
    /\ ~InScope(resp.caller, "t1")
    /\ ~tasks["t1"].isArchived
    /\ InScope(resp.caller, "t2")
    /\ tasks["t2"].status = "completed"
    /\ The(tasks["t2"].completedAt) < StartOfMonth(clock)
    /\ clock - The(tasks["t2"].completedAt) < MonthLen
    /\ resp.data.completedThisMonth = 0
    /\ DOMAIN resp.data.statusStats = {"completed"}

-----------------------------------------------------------------------------
(* SpecFields: the fields an update writes *)

\* Request bodies: allow-listed fields, fields outside the allow-list, and
\* assignedTo.
FieldBodies ==
    {ok @@ other @@ asg :
        ok \in {Empty, Obj("title", <<"b">>), Obj("isArchived", TRUE),
                Obj("title", <<"b">>) @@ Obj("priority", "high")},
        other \in {Empty, Obj("createdBy", "bob"),
                   Obj("comments", <<>>) @@ Obj("createdAt", 9) @@ Obj("_id", "t9")},
        asg \in Opt("assignedTo", {"user", "admin"})}

\* One task created at 0, of user or created by admin for user; the update
\* comes later.
InitFields ==
    /\ clock = 1
    /\ \E own \in {<<"user", "user">>, <<"admin", "user">>} :
          tasks = Obj("t1", NewTaskDoc(Obj("title", <<"a">>) @@ Obj("createdBy", own[1])
                                          @@ Obj("assignedTo", own[2]), 0))
    /\ usedIds = {"t1"}
    /\ resp = NoResp
    /\ listing = NoListing
    /\ InitAuthIdle

NextFields == \E c \in Callers, b \in FieldBodies : updateTask(c, "t1", b)

SpecFields == InitFields /\ [][NextFields]_vars

\* The fields the allow-list names for a role.
Writable(role) ==
    {"title", "description", "status", "priority", "category", "dueDate", "tags",
     "isArchived"} \cup (IF role = "admin" THEN {"assignedTo"} ELSE {})

\* An update of an existing task by a caller who may modify it.
UpdateByModifier ==
    /\ resp.op = "update"
    /\ ~IsNull(Loaded)
    /\ (resp.caller.role = "admin" \/ IsOwner(The(Loaded), resp.caller.id))

-----------------------------------------------------------------------------
(* SpecRace: register and updateProfile, await by await *)

\* db.users.createIndex({email: 1}, {unique: true}) and the same on username:
\* the collection accepts a write only if no two documents share an email
\* and no two share a username.
UniqueIndexesNone(us) == TRUE

UniqueIndexes(us) ==
    \A i, j \in DOMAIN us :
        i # j => us[i].email # us[j].email /\ us[i].username # us[j].username

\* The requests in flight at once, and the _ids an insert can be given.
Slots == {"r1", "r2"}
AccountIds == UserIds \cup {"carol"}

\* What a step of a request left behind: Served, and the request itself.
ServedStep(op, request, outcome, result) ==
    auth' = [op |-> op, header |-> request.header, outcome |-> outcome,
             handled |-> TRUE, result |-> result, at |-> clock,
             before |-> users, issued |-> tokens, request |-> request]

\* register up to its first await: User.findOne({$or: [{email}, {username}]}).
\* A request that finds nobody goes on to User.create.
registerFindOne(r, username, email, password) ==
    /\ r \notin DOMAIN pending
    /\ LET request == [op |-> "register", header |-> Null, id |-> Null,
                       updates |-> Obj("username", username) @@ Obj("email", email),
                       password |-> password]
       IN IF findByEmailOrUsername(users, email, username) # {}
          THEN /\ ServedStep("register.findOne", request, "Public", "BadRequest")
               /\ UNCHANGED pending
          ELSE /\ ServedStep("register.findOne", request, "Public", "Pending")
               /\ pending' = Obj(r, request) @@ pending
    /\ UNCHANGED <<clock, tasks, usedIds, resp, listing, users, tokens>>

\* register from User.create on: the insert is refused by a unique index (the
\* driver throws E11000 and the request ends in the error handler), or the
\* account is stored and its token issued.
registerCreate(r) ==
    /\ r \in DOMAIN pending
    /\ pending[r].op = "register"
    /\ DOMAIN users # AccountIds
    /\ LET request == pending[r]
           id == CHOOSE i \in AccountIds \ DOMAIN users : TRUE
           doc == NewUserDoc(request.updates.username, request.updates.email,
                             request.password)
           written == Obj(id, doc) @@ users
       IN IF ~UniqueIndexes(written)
          THEN /\ ServedStep("register.create", request, "Public", "DuplicateKey")
               /\ UNCHANGED <<users, tokens>>
          ELSE /\ ServedStep("register.create", request, "Public", "Created")
               /\ users' = TouchLastLogin(written, id, clock)
               /\ Issue(generateToken([id |-> id, username |-> doc.username,
                                       role |-> doc.role], clock))
    /\ pending' = [s \in DOMAIN pending \ {r} |-> pending[s]]
    /\ UNCHANGED <<clock, tasks, usedIds, resp, listing>>

\* updateProfile up to the await of User.findOne: authenticate, the filter of
\* the body, and the lookup, made only when username or email is submitted.
\* No step of register or updateProfile changes what authenticate reads of
\* the caller, so authenticate and the lookup are one step.
updateProfileFindOne(r, header, body) ==
    /\ r \notin DOMAIN pending
    /\ LET a == authenticate(header)
           updates == [k \in DOMAIN body \cap {"username", "email"} |-> body[k]]
           request == [op |-> "updateProfile", header |-> header, id |-> a.user,
                       updates |-> updates, password |-> Null]
           existing == {i \in DOMAIN users :
                          \/ Has(updates, "username") /\ users[i].username = updates.username
                          \/ Has(updates, "email") /\ users[i].email = updates.email}
       IN IF a.outcome # "Authenticated"
          THEN /\ ServedStep("updateProfile.findOne", request, a.outcome, "Unauthorized")
               /\ UNCHANGED <<users, pending>>
          ELSE IF DOMAIN updates # {} /\ existing # {}
          THEN /\ ServedStep("updateProfile.findOne", request, a.outcome, "BadRequest")
               /\ users' = Touched(The(a.user))
               /\ UNCHANGED pending
          ELSE /\ ServedStep("updateProfile.findOne", request, a.outcome, "Pending")
               /\ users' = Touched(The(a.user))
               /\ pending' = Obj(r, request) @@ pending
    /\ UNCHANGED <<clock, tasks, usedIds, resp, listing, tokens>>

\* updateProfile from User.findByIdAndUpdate(req.user._id, updates) on: the
\* update is refused by a unique index, or written.
updateProfileFindByIdAndUpdate(r) ==
    /\ r \in DOMAIN pending
    /\ pending[r].op = "updateProfile"
    /\ LET request == pending[r]
           id == The(request.id)
           written == [users EXCEPT ![id] =
                         [k \in DOMAIN users[id] |->
                             IF k \in DOMAIN request.updates
                             THEN request.updates[k] ELSE users[id][k]]]
       IN IF ~UniqueIndexes(written)
          THEN /\ ServedStep("updateProfile.findByIdAndUpdate", request,
                             "Authenticated", "DuplicateKey")
               /\ UNCHANGED users
          ELSE /\ ServedStep("updateProfile.findByIdAndUpdate", request,
                             "Authenticated", "OK")
               /\ users' = written
    /\ pending' = [s \in DOMAIN pending \ {r} |-> pending[s]]
    /\ UNCHANGED <<clock, tasks, usedIds, resp, listing, tokens>>

\* The seeded accounts, each holding a token, and nothing in flight.
InitRace ==
    /\ clock = 0
    /\ users = SeedUsers
    /\ tokens = {generateToken([id |-> id, username |-> SeedUsers[id].username,
                                role |-> SeedUsers[id].role], 0) : id \in DOMAIN SeedUsers}
    /\ auth = NoAuth
    /\ pending = <<>>
    /\ InitTasksIdle

RaceNames == {"bob", "user"}
RaceEmails == {"bob@example.com", "user@example.com"}
RaceBodies == {n @@ e : n \in Opt("username", RaceNames),
                        e \in Opt("email", RaceEmails)}

NextRace ==
    \/ \E r \in Slots, n \in RaceNames, e \in RaceEmails :
          registerFindOne(r, n, e, "Bob123!")
    \/ \E r \in Slots : registerCreate(r)
    \/ \E r \in Slots, h \in TokenHeaders \cup {Null}, b \in RaceBodies :
          updateProfileFindOne(r, h, b)
    \/ \E r \in Slots : updateProfileFindByIdAndUpdate(r)

SpecRace == InitRace /\ [][NextRace]_vars

RaceSteps == {"register.findOne", "register.create", "updateProfile.findOne",
              "updateProfile.findByIdAndUpdate"}

\* The step's write would leave the request's username or email on two
\* identities of the store as the step found it.
WouldDuplicate(request, us) ==
    \E i \in DOMAIN us :
        /\ IsNull(request.id) \/ i # The(request.id)
        /\ \/ Has(request.updates, "username") /\ us[i].username = request.updates.username
           \/ Has(request.updates, "email") /\ us[i].email = request.updates.email

-----------------------------------------------------------------------------
(* SpecCreate: who a new task belongs to *)

\* Bodies of POST /tasks: with and without a title, with no assignedTo, an
\* empty one or a user id, and with or without a createdBy of the client's.
CreateBodies ==
    {tl @@ asg @@ by :
        tl \in Opt("title", {<<"a">>}),
        asg \in Opt("assignedTo", UserIds \cup {""}),
        by \in Opt("createdBy", UserIds)}

NextCreate ==
    \/ \E c \in Callers, b \in CreateBodies : createTask(c, b)
    \/ \E c \in Callers, t \in TaskIds : deleteTask(c, t)

SpecCreate == Init /\ [][NextCreate]_vars

Created == resp.op = "create" /\ resp.result = "Created"

\* C20: a task created without assignedTo is assigned to its caller and
\* created by its caller; every created task has createdBy equal to its
\* caller, whatever createdBy the request submitted.
C20_CreatorIsCaller ==
    Created =>
        /\ tasks[resp.tid].createdBy = resp.caller.id
        /\ (~Has(resp.body, "assignedTo") \/ resp.body.assignedTo = "") =>
               tasks[resp.tid].assignedTo = resp.caller.id

\* A create without assignedTo that submitted somebody else as createdBy.
C20_Witness ==
    /\ Created
    /\ ~Has(resp.body, "assignedTo")
    /\ Has(resp.body, "createdBy")
    /\ resp.body.createdBy # resp.caller.id
    /\ tasks[resp.tid].assignedTo = resp.caller.id

-----------------------------------------------------------------------------
(* SpecSearch: the search term among the other filters of getTasks *)

\* One task, created at 0, as the collection holds it at time 2.
SearchPool ==
    {PreSaveCompletedAt(
        NewTaskDoc(Obj("title", tl) @@ Obj("createdBy", own) @@ Obj("assignedTo", own)
                       @@ Obj("status", st) @@ Obj("dueDate", due), 0),
        TRUE, 0) :
        tl \in {<<"F", "i", "x">>, <<"a", "b">>},
        own \in {"admin", "user"},
        st \in {"pending", "completed"},
        due \in {Null, Some(1)}}

\* search absent, empty or "fI"; with and without status and dueDate.
SearchQueries ==
    {se @@ st @@ d :
        se \in Opt("search", {<<>>, <<"f", "I">>}),
        st \in Opt("status", {"pending"}),
        d \in Opt("dueDate", {"overdue", "today"})}

InitSearch ==
    /\ clock = 2
    /\ tasks \in [{"t1"} -> SearchPool]
    /\ usedIds = DOMAIN tasks
    /\ resp = NoResp
    /\ listing = NoListing
    /\ InitAuthIdle

NextSearch == \E c \in Callers, q \in SearchQueries : getTasks(c, q)

SpecSearch == InitSearch /\ [][NextSearch]_vars

Searched == Has(listing.query, "search") /\ listing.query.search # <<>>

-----------------------------------------------------------------------------
(* SpecDue: the equality filters next to the date filters *)

EqualityKeys == {"status", "priority", "category", "assignedTo", "createdBy"}

\* C22 (as claimed): every task returned equals the supplied value on every
\* equality filter of the query, also when dueDate=overdue is supplied with
\* a status.
C22_EqualityFiltersExact ==
    \A k \in DOMAIN listing.query \cap EqualityKeys :
        \A t \in Listed : tasks[t][k] = listing.query[k]

-----------------------------------------------------------------------------
(* SpecInterleave: the task handlers, await by await *)

\* What a step of a request left behind: Respond, and the request itself
\* with the document it loaded.
RespondStep(op, request, result) ==
    resp' = [op |-> op, caller |-> request.caller, tid |-> request.tid,
             body |-> request.body, result |-> result, before |-> tasks,
             request |-> request]

Request(op, c, tid, body, task) ==
    [op |-> op, caller |-> c, tid |-> tid, body |-> body, loaded |-> task]

Drop(r) == [s \in DOMAIN pending \ {r} |-> pending[s]]

\* updateTask up to the await of Task.findByIdAndUpdate: the load and the
\* checks on the loaded document.
updateTaskFindById(r, c, tid, body) ==
    LET task == findById(tid)
        request == Request("update", c, tid, body, task)
    IN
    /\ r \notin DOMAIN pending
    /\ IF IsNull(task)
       THEN /\ RespondStep("update.findById", request, "NotFound")
            /\ UNCHANGED pending
       ELSE IF ~canModify(The(task), c.id, c.role)
       THEN /\ RespondStep("update.findById", request, "Forbidden")
            /\ UNCHANGED pending
       ELSE IF Has(body, "assignedTo") /\ c.role # "admin"
               /\ The(task).assignedTo # body.assignedTo
       THEN /\ RespondStep("update.findById", request, "Forbidden")
            /\ UNCHANGED pending
       ELSE /\ RespondStep("update.findById", request, "Pending")
            /\ pending' = Obj(r, request) @@ pending
    /\ UNCHANGED <<clock, tasks, usedIds, listing, users, tokens, auth>>

\* An update whose write is refused when the caller can no longer modify the
\* document the collection holds.
updateTaskFindByIdAndUpdateRechecks(r) ==
    /\ r \in DOMAIN pending
    /\ pending[r].op = "update"
    /\ LET request == pending[r]
           tid == request.tid
           updates == BuildUpdates(request.body, request.caller.role)
       IN IF tid \notin DOMAIN tasks
          THEN /\ RespondStep("update.findByIdAndUpdate", request, "ServerError")
               /\ UNCHANGED tasks
          ELSE IF ~canModify(tasks[tid], request.caller.id, request.caller.role)
          THEN /\ RespondStep("update.findByIdAndUpdate", request, "Forbidden")
               /\ UNCHANGED tasks
          ELSE IF ~SchemaValid(updates, clock)
          THEN /\ RespondStep("update.findByIdAndUpdate", request, "ValidationFailed")
               /\ UNCHANGED tasks
          ELSE /\ tasks' = [tasks EXCEPT ![tid] = ApplyUpdates(tasks[tid], updates, clock)]
               /\ RespondStep("update.findByIdAndUpdate", request, "OK")
    /\ pending' = Drop(r)
    /\ UNCHANGED <<clock, usedIds, listing, users, tokens, auth>>

\* updateTask from Task.findByIdAndUpdate(req.params.id, updates) on.  The
\* write goes to the document the collection holds now.  When the document
\* is gone the call returns null and task.populate throws a TypeError, which
\* asyncHandler hands to the error handler.
updateTaskFindByIdAndUpdate(r) ==
    /\ r \in DOMAIN pending
    /\ pending[r].op = "update"
    /\ LET request == pending[r]
           tid == request.tid
           updates == BuildUpdates(request.body, request.caller.role)
       IN IF ~SchemaValid(updates, clock)
          THEN /\ RespondStep("update.findByIdAndUpdate", request, "ValidationFailed")
               /\ UNCHANGED tasks
          ELSE IF tid \notin DOMAIN tasks
          THEN /\ RespondStep("update.findByIdAndUpdate", request, "ServerError")
               /\ UNCHANGED tasks
          ELSE /\ tasks' = [tasks EXCEPT ![tid] = ApplyUpdates(tasks[tid], updates, clock)]
               /\ RespondStep("update.findByIdAndUpdate", request, "OK")
    /\ pending' = Drop(r)
    /\ UNCHANGED <<clock, usedIds, listing, users, tokens, auth>>

\* deleteTask up to the await of Task.findByIdAndDelete.
deleteTaskFindById(r, c, tid) ==
    LET task == findById(tid)
        request == Request("delete", c, tid, Empty, task)
    IN
    /\ r \notin DOMAIN pending
    /\ IF IsNull(task)
       THEN /\ RespondStep("delete.findById", request, "NotFound")
            /\ UNCHANGED pending
       ELSE IF ~canModify(The(task), c.id, c.role)
       THEN /\ RespondStep("delete.findById", request, "Forbidden")
            /\ UNCHANGED pending
       ELSE /\ RespondStep("delete.findById", request, "Pending")
            /\ pending' = Obj(r, request) @@ pending
    /\ UNCHANGED <<clock, tasks, usedIds, listing, users, tokens, auth>>

\* deleteTask from Task.findByIdAndDelete on: its result is not read, so a
\* document that is already gone is answered like one that was deleted.
deleteTaskFindByIdAndDelete(r) ==
    /\ r \in DOMAIN pending
    /\ pending[r].op = "delete"
    /\ tasks' = [i \in DOMAIN tasks \ {pending[r].tid} |-> tasks[i]]
    /\ RespondStep("delete.findByIdAndDelete", pending[r], "OK")
    /\ pending' = Drop(r)
    /\ UNCHANGED <<clock, usedIds, listing, users, tokens, auth>>

\* addComment up to the await of task.addComment.
addCommentFindById(r, c, tid, content) ==
    LET task == findById(tid)
        request == Request("comment", c, tid, [content |-> content], task)
    IN
    /\ r \notin DOMAIN pending
    /\ IF IsNull(task)
       THEN /\ RespondStep("comment.findById", request, "NotFound")
            /\ UNCHANGED pending
       ELSE IF c.role # "admin" /\ The(task).assignedTo # c.id
                                /\ The(task).createdBy # c.id
       THEN /\ RespondStep("comment.findById", request, "Forbidden")
            /\ UNCHANGED pending
       ELSE /\ RespondStep("comment.findById", request, "Pending")
            /\ pending' = Obj(r, request) @@ pending
    /\ UNCHANGED <<clock, tasks, usedIds, listing, users, tokens, auth>>

\* addComment from task.addComment on: validation and the save hooks run on
\* the loaded document, and the save pushes the comment onto the document
\* the collection holds.  When the document is gone the save matches
\* nothing: Mongoose throws DocumentNotFoundError, or (older versions)
\* reports the save as done.
addCommentSave(r) ==
    /\ r \in DOMAIN pending
    /\ pending[r].op = "comment"
    /\ LET request == pending[r]
           tid == request.tid
           task == The(request.loaded)
       IN IF request.body.content = <<>>
          THEN /\ RespondStep("comment.save", request, "ValidationFailed")
               /\ UNCHANGED tasks
          ELSE IF ~PreSaveDueDateOk(task, clock)
          THEN /\ RespondStep("comment.save", request, "ServerError")
               /\ UNCHANGED tasks
          ELSE IF tid \notin DOMAIN tasks
          THEN /\ \E result \in {"ServerError", "Created"} :
                     RespondStep("comment.save", request, result)
               /\ UNCHANGED tasks
          ELSE /\ Len(tasks[tid].comments) < MaxComments
               /\ tasks' = [tasks EXCEPT ![tid] =
                              SaveStamp(PushComment(tasks[tid], request.body.content,
                                                    request.caller.id, clock),
                                        clock)]
               /\ RespondStep("comment.save", request, "Created")
    /\ pending' = Drop(r)
    /\ UNCHANGED <<clock, usedIds, listing, users, tokens, auth>>

\* One task, created at 0 by admin for user, at time 1.
InitInterleave ==
    /\ clock = 1
    /\ tasks = Obj("t1", NewTaskDoc(Obj("title", <<"a">>) @@ Obj("createdBy", "admin")
                                        @@ Obj("assignedTo", "user"), 0))
    /\ usedIds = {"t1"}
    /\ resp = NoResp
    /\ listing = NoListing
    /\ InitAuthIdle

InterleaveBodies ==
    {Obj("title", <<"a">>), Obj("title", <<"b">>), Obj("title", <<>>),
     Obj("assignedTo", "bob"), Obj("title", <<"b">>) @@ Obj("assignedTo", "bob")}

\* A new request takes the first free slot.
FreeSlot == IF "r1" \notin DOMAIN pending THEN "r1" ELSE "r2"

NextInterleave ==
    \/ \E c \in Callers, b \in InterleaveBodies :
          updateTaskFindById(FreeSlot, c, "t1", b)
    \/ \E r \in Slots : updateTaskFindByIdAndUpdate(r)
    \/ \E c \in Callers : deleteTaskFindById(FreeSlot, c, "t1")
    \/ \E r \in Slots : deleteTaskFindByIdAndDelete(r)
    \/ \E c \in Callers : addCommentFindById(FreeSlot, c, "t1", <<"a">>)
    \/ \E r \in Slots : addCommentSave(r)
    \/ \E c \in Callers : getTask(c, "t1")

SpecInterleave == InitInterleave /\ [][NextInterleave]_vars

\* The write step of an update on a task the collection still holds, with
\* updates that pass the validators.
UpdateWritten ==
    /\ resp.op = "update.findByIdAndUpdate"
    /\ resp.tid \in DOMAIN resp.before
    /\ SchemaValid(BuildUpdates(resp.body, resp.caller.role), clock)

\* C23: the write of an update is applied without a second check: whenever
\* the task still exists the write succeeds, whatever happened to the task
\* since the request loaded and checked it, each field of the updates has
\* the value of this write (the last write wins), and every other field
\* but updatedAt keeps the value the collection held, not the value loaded.
C23_LastWriteWins ==
    UpdateWritten =>
        /\ resp.result = "OK"
        /\ \A k \in DOMAIN tasks[resp.tid] :
              tasks[resp.tid][k] =
                 IF k \in DOMAIN BuildUpdates(resp.body, resp.caller.role)
                 THEN resp.body[k]
                 ELSE IF k = "updatedAt" THEN clock
                 ELSE resp.before[resp.tid][k]

\* A non-admin assignee loaded the task and passed the check; an admin then
\* gave the task to somebody else and wrote the title; the assignee's write
\* was applied nevertheless and its title replaced the admin's.
C23_Witness ==
    /\ UpdateWritten
    /\ resp.result = "OK"
    /\ resp.caller.role # "admin"
    /\ canModify(The(resp.request.loaded), resp.caller.id, resp.caller.role)
    /\ ~canModify(resp.before[resp.tid], resp.caller.id, resp.caller.role)
    /\ Has(resp.body, "title")
    /\ resp.before[resp.tid].title # The(resp.request.loaded).title
    /\ resp.before[resp.tid].title # resp.body.title
    /\ tasks[resp.tid].title = resp.body.title

\* C24 (as claimed): every step of a get, update, delete or addComment
\* request ends in success or in NotFound, Forbidden or ValidationFailed,
\* and a write whose target another request deleted after the load ends in
\* NotFound.
C24_ClassifiedOutcomes ==
    resp.op # "none" =>
        /\ resp.result \in {"OK", "Created", "Pending", "NotFound", "Forbidden",
                            "ValidationFailed"}
        /\ (/\ resp.op \in {"update.findByIdAndUpdate", "comment.save"}
            /\ resp.tid \notin DOMAIN resp.before) => resp.result = "NotFound"

-----------------------------------------------------------------------------
(* Spec: who a task belongs to, over its life *)

\* C25: a step never changes the createdBy of a task, which is the caller of
\* its create; a step that creates a task with an assignee other than its
\* creator, or that changes the assignee of a task, is a create or an update
\* of a caller with the admin role.
C25_OwnershipChangesByAdminOnly ==
    [][/\ \A t \in DOMAIN tasks \cap DOMAIN tasks' :
             tasks'[t].createdBy = tasks[t].createdBy
       /\ \A t \in DOMAIN tasks' \ DOMAIN tasks :
             /\ resp'.op = "create"
             /\ tasks'[t].createdBy = resp'.caller.id
       /\ \A t \in DOMAIN tasks' :
             (\/ t \notin DOMAIN tasks /\ tasks'[t].assignedTo # tasks'[t].createdBy
              \/ t \in DOMAIN tasks /\ tasks'[t].assignedTo # tasks[t].assignedTo)
                => /\ resp'.op \in {"create", "update"}
                   /\ resp'.tid = t
                   /\ resp'.caller.role = "admin"]_vars

\* An admin gave a task of a user, assigned to its creator, to somebody else.
C25_Witness ==
    /\ resp.op = "update"
    /\ resp.result = "OK"
    /\ resp.caller.role = "admin"
    /\ resp.tid \in DOMAIN resp.before
    /\ resp.before[resp.tid].createdBy # "admin"
    /\ resp.before[resp.tid].assignedTo = resp.before[resp.tid].createdBy
    /\ tasks[resp.tid].assignedTo # tasks[resp.tid].createdBy
    /\ tasks[resp.tid].createdBy = resp.before[resp.tid].createdBy

-----------------------------------------------------------------------------
(* SpecRoles: the role a request is decided with *)

\* req.user with the role a client wrote into its token.
reqUserRoleOfToken(header) ==
    [id |-> The(authenticate(header).user), role |-> TokenOf(header).role]

\* req.user = user: the document authenticate loaded from the collection.
reqUser(header) ==
    LET id == The(authenticate(header).user)
    IN [id |-> id, role |-> users[id].role]

\* GET /tasks behind router.use(authenticate).
getTasksRoute(header, q) ==
    LET a == authenticate(header) IN
    /\ IF a.outcome # "Authenticated"
       THEN /\ Served("getTasks", header, a.outcome, FALSE, "Unauthorized")
            /\ UNCHANGED <<users, listing>>
       ELSE /\ Served("getTasks", header, a.outcome, TRUE, "OK")
            /\ users' = Touched(The(a.user))
            /\ getTasksHandler(reqUser(header), q)
    /\ UNCHANGED <<clock, tokens, tasks, usedIds, resp, pending>>

\* The seeded accounts, each holding the token of a login at 0, and one task
\* of each.
InitRoles ==
    /\ clock = 0
    /\ users = SeedUsers
    /\ tokens = {generateToken([id |-> id, username |-> SeedUsers[id].username,
                                role |-> SeedUsers[id].role], 0) : id \in DOMAIN SeedUsers}
    /\ auth = NoAuth
    /\ pending = <<>>
    /\ tasks = [t \in QueryIds |->
                  NewTaskDoc(Obj("title", <<"a">>)
                                 @@ Obj("createdBy", IF t = "t1" THEN "admin" ELSE "user")
                                 @@ Obj("assignedTo", IF t = "t1" THEN "admin" ELSE "user"),
                             0)]
    /\ usedIds = QueryIds
    /\ resp = NoResp
    /\ listing = NoListing

NextRoles ==
    \/ \E e \in Emails, p \in Passwords : login(e, p)
    \/ \E h \in TokenHeaders, u \in DOMAIN SeedUsers, r \in Roles : updateUserRole(h, u, r)
    \/ \E h \in TokenHeaders \cup {Null} : getTasksRoute(h, Empty)
    \/ Tick

SpecRoles == InitRoles /\ [][NextRoles]_vars

\* C26: a request is decided with the role the collection held for its
\* account when authenticate ran, not with the role written in its token:
\* an admin-only route runs its handler exactly when that stored role is
\* admin, and GET /tasks scopes its listing by that stored role.
C26_StoredRoleDecides ==
    /\ (auth.op = "updateUserRole" /\ auth.outcome = "Authenticated") =>
          (auth.handled <=> auth.before[TokenOf(auth.header).id].role = "admin")
    /\ (auth.op = "getTasks" /\ auth.handled) =>
          /\ listing.caller.id = TokenOf(auth.header).id
          /\ listing.caller.role = auth.before[TokenOf(auth.header).id].role
          /\ Listed = IF auth.before[TokenOf(auth.header).id].role = "admin"
                      THEN DOMAIN tasks
                      ELSE {t \in DOMAIN tasks : IsOwner(tasks[t], listing.caller.id)}

\* A demoted admin lists with the token issued while it was admin and is
\* returned its own tasks only.
C26_Witness ==
    /\ auth.op = "getTasks"
    /\ auth.handled
    /\ TokenOf(auth.header).role = "admin"
    /\ auth.before[TokenOf(auth.header).id].role = "user"
    /\ Listed = {"t1"}

\* A promoted user calls an admin-only route with the token issued while it
\* was a regular user, and the route runs.
C26_WitnessPromoted ==
    /\ auth.op = "updateUserRole"
    /\ auth.handled
    /\ TokenOf(auth.header).role = "user"
    /\ auth.before[TokenOf(auth.header).id].role = "admin"

-----------------------------------------------------------------------------
(* SpecAccounts: who changes role and isActive *)

Kept(i, k) == users[i][k] = auth.before[i][k]

C27_WitnessProfile ==
    /\ auth.op = "updateProfile"
    /\ auth.handled
    /\ auth.result = "OK"
    /\ users # auth.before

-----------------------------------------------------------------------------
(* SpecComment: comments over the life of a task *)

\* One task, created at 0 with no dueDate or one in its future.
CommentPool ==
    {NewTaskDoc(Obj("title", <<"a">>) @@ Obj("createdBy", own[1])
                    @@ Obj("assignedTo", own[2]) @@ Obj("dueDate", due), 0) :
        own \in {<<"admin", "admin">>, <<"admin", "user">>, <<"user", "user">>},
        due \in {Null, Some(1), Some(2)}}

InitComment ==
    /\ clock = 0
    /\ tasks \in [{"t1"} -> CommentPool]
    /\ usedIds = {"t1"}
    /\ resp = NoResp
    /\ listing = NoListing
    /\ InitAuthIdle

NextComment ==
    \/ \E c \in Callers : addComment(c, "t1", <<"a">>)
    \/ Tick

SpecComment == InitComment /\ [][NextComment]_vars

\* C28 (as claimed): addComment by an admin, the assignee or the creator on
\* an existing task succeeds and appends one comment of the caller after the
\* earlier ones, every other field of the task unchanged, whatever the
\* dueDate of the task.
C28_CommentAlwaysSucceeds ==
    (/\ resp.op = "comment"
     /\ resp.tid \in DOMAIN resp.before
     /\ \/ resp.caller.role = "admin"
        \/ IsOwner(resp.before[resp.tid], resp.caller.id))
    => /\ resp.result = "Created"
       /\ Len(tasks[resp.tid].comments) = Len(resp.before[resp.tid].comments) + 1
       /\ SubSeq(tasks[resp.tid].comments, 1, Len(resp.before[resp.tid].comments))
             = resp.before[resp.tid].comments
       /\ tasks[resp.tid].comments[Len(tasks[resp.tid].comments)].author = resp.caller.id
       /\ \A k \in DOMAIN tasks[resp.tid] \ {"comments"} :
             tasks[resp.tid][k] = resp.before[resp.tid][k]

\* The same for the tasks without dueDate, with updatedAt left out of the
\* unchanged fields.
CommentSucceedsWithoutDueDate ==
    (/\ resp.op = "comment"
     /\ resp.tid \in DOMAIN resp.before
     /\ IsNull(resp.before[resp.tid].dueDate)
     /\ \/ resp.caller.role = "admin"
        \/ IsOwner(resp.before[resp.tid], resp.caller.id))
    => /\ resp.result = "Created"
       /\ Len(tasks[resp.tid].comments) = Len(resp.before[resp.tid].comments) + 1
       /\ SubSeq(tasks[resp.tid].comments, 1, Len(resp.before[resp.tid].comments))
             = resp.before[resp.tid].comments
       /\ tasks[resp.tid].comments[Len(tasks[resp.tid].comments)].author = resp.caller.id
       /\ \A k \in DOMAIN tasks[resp.tid] \ {"comments", "updatedAt"} :
             tasks[resp.tid][k] = resp.before[resp.tid][k]

\* C28 (as claimed) with updatedAt left out of the unchanged fields: what
\* remains is the claim about the dueDate.
CommentSucceedsWhateverDueDate ==
    (/\ resp.op = "comment"
     /\ resp.tid \in DOMAIN resp.before
     /\ \/ resp.caller.role = "admin"
        \/ IsOwner(resp.before[resp.tid], resp.caller.id))
    => resp.result = "Created"

-----------------------------------------------------------------------------
(* middleware/auth.js: optionalAuth *)

\* User.findById(id) without .select('+passwordChangedAt'): authenticate asks
\* for the path by name, as changePassword asks for '+password'; a path the
\* schema declares select: false is absent from a document loaded without
\* it.  hidden says whether the schema declares it so.
findByIdDefault(id, hidden) ==
    IF id \notin DOMAIN users THEN Null
    ELSE IF hidden THEN Some([users[id] EXCEPT !.passwordChangedAt = Null])
    ELSE Some(users[id])

\* The identity optionalAuth attaches to the request, if any.  An exception
\* of extractToken or verifyToken is caught and ignored.
optionalAuthUser(authHeader, hidden) ==
    IF IsNull(authHeader) \/ The(authHeader).prefix = <<>> THEN Null
    ELSE LET ex == extractToken(authHeader) IN
    IF ~ex.ok THEN Null
    ELSE LET v == verifyToken(ex.token, clock) IN
    IF ~v.ok THEN Null
    ELSE LET user == findByIdDefault(v.decoded.id, hidden) IN
    IF /\ ~IsNull(user)
       /\ The(user).isActive
       /\ ~changedPasswordAfter(The(user), v.decoded.iat)
    THEN Some(v.decoded.id)
    ELSE Null

\* optionalAuth: next() is called on every path; nothing is written.
optionalAuth(header) ==
    /\ \E hidden \in BOOLEAN :
          auth' = [op |-> "optionalAuth", header |-> header, outcome |-> "Optional",
                   handled |-> TRUE, result |-> "Next", at |-> clock,
                   before |-> users, issued |-> tokens,
                   user |-> optionalAuthUser(header, hidden)]
    /\ UNCHANGED <<clock, users, tokens, tasks, usedIds, resp, listing, pending>>

NextOptional ==
    \/ \E e \in Emails, p \in Passwords : login(e, p)
    \/ \E h \in TokenHeaders, cur \in Passwords, new \in Passwords : changePassword(h, cur, new)
    \/ \E h \in TokenHeaders, u \in UserIds : deactivateUser(h, u)
    \/ \E h \in Headers : optionalAuth(h)
    \/ Tick

SpecOptional == InitAuth /\ [][NextOptional]_vars

\* optionalAuth has just run: the clock and the collection are as it saw them.
OptionalRan == auth.op = "optionalAuth" /\ auth.at = clock /\ users = auth.before

OptionalAuthNeverRejects ==
    OptionalRan =>
        /\ auth.handled
        /\ authenticate(auth.header).outcome = "Authenticated" =>
              auth.user = authenticate(auth.header).user
        /\ ~IsNull(auth.user) =>
              authenticate(auth.header).outcome \in {"Authenticated", "StaleCredential"}

-----------------------------------------------------------------------------
(* SpecRace: the lookup of updateProfile *)

\* C30 (as claimed): updateProfile answers that a username or email already
\* exists only when an identity other than the caller holds it; a request
\* that submits the caller's own current username or email passes the
\* lookup.
C30_DuplicateCheckExcludesCaller ==
    (auth.op = "updateProfile.findOne" /\ auth.outcome = "Authenticated") =>
        (auth.result = "BadRequest" <=> WouldDuplicate(auth.request, auth.before))

\* An updateProfile that was answered 'already exists' for a name that only
\* the caller holds.
OwnNameRejected ==
    /\ auth.op = "updateProfile.findOne"
    /\ auth.outcome = "Authenticated"
    /\ auth.result = "BadRequest"
    /\ ~WouldDuplicate(auth.request, auth.before)

====
